---- MODULE Spec2Model ----
(***************************************************************************)
(* A model of qhub-cli: the credential/session service (auth/service.rs)   *)
(* over the users / user_sessions tables, and the terminal client          *)
(* (tui/app.rs) that dispatches chat and auth operations to background     *)
(* tasks and polls their single-slot channels from the tick loop           *)
(* (main.rs).                                                              *)
(*                                                                         *)
(* Time is counted in whole hours (the unit of TOKEN_EXPIRY_HOURS); several*)
(* operations may run within one unit, as they may within one second of    *)
(* the real clock (iat/exp are whole seconds).  An Option<T> is modelled   *)
(* as a set with at most one element: {} is None, {x} is Some(x).          *)
(***************************************************************************)
EXTENDS Integers, Sequences, FiniteSets, TLC

(***************************************************************************)
(* Bounds of the model.                                                    *)
(***************************************************************************)
\* the clock runs from 0 to MaxTime under SpecAuth
MaxTime == 2
\* the clock runs from 0 to MaxClock under Spec
MaxClock == 1
\* Uuid::new_v4() is drawn at most MaxUuid times (user and session ids)
MaxUuid == 3
\* the client accepts at most MaxInputs submitted lines under Spec
MaxInputs == 3
\* the client accepts at most MaxTurns submitted lines under SpecChat
MaxRacers == 2
MaxSwitch == 4
MaxTurns == 12

(***************************************************************************)
(* Program constants.                                                      *)
(***************************************************************************)
\* const TOKEN_EXPIRY_HOURS: i64 = 24
TOKEN_EXPIRY_HOURS == 24
\* if self.conversation_history.len() > 21
HistoryLimit == 21
\* .skip(self.conversation_history.len() - 20)
HistoryKeep == 20

(***************************************************************************)
(* Input domains.                                                          *)
(***************************************************************************)
\* e-mail addresses a caller may supply to register and to login; "nobody"
\* has no '@', and "b@x" is never registered
RegisterEmails == {"a@x", "nobody"}
LoginEmails == {"a@x", "b@x"}
Passwords == {"pw1", "pw2"}
\* salts SaltString::generate may draw
Salts == {"s1"}

\* the tiers of the users table: register inserts "free"
Tiers == {"free", "pro"}
\* values of the TOKEN_EXPIRY_HOURS environment variable
EnvTtlValues == {"unset", "1", "abc"}
\* the process-wide signing secret, and a key that is not the secret
jwt_secret == "secret"
OtherKey == "not-the-secret"

\* str::contains('@') on the e-mail addresses of the model
ContainsAt(email) == email \in {"a@x", "b@x"}

\* s.parse::<i64>().ok(): Some(n) for a decimal string, None otherwise
ParseI64(s) == IF s = "1" THEN {1} ELSE IF s = "2" THEN {2} ELSE {}

VARIABLES
    users,        \* table users: a set of rows
    sessions,     \* table user_sessions: a set of rows
    now,          \* the clock (Utc::now()), in hours
    next_uuid,    \* the next value Uuid::new_v4() returns
    env_ttl,      \* the TOKEN_EXPIRY_HOURS environment variable
    issued,       \* every token an AuthResponse has returned to a caller
    revoked,      \* every token for which a logout call has completed
    registered,   \* [token, user] of every successful register
    call          \* the last completed call of the service API and its result

svars == <<users, sessions, now, next_uuid, env_ttl, issued, revoked, registered, call>>

(***************************************************************************)
(* AuthService: pure helpers.                                              *)
(***************************************************************************)
\* Argon2 of the password under the salt, as a self-describing string
hash_password(password, salt) ==
    [alg |-> "argon2id", salt |-> salt, digest |-> <<salt, password>>]

\* a verification that accepts every password for a well-formed hash
verify_password_any(password, hash) == hash.alg = "argon2id"

\* recompute under the stored salt and compare
verify_password(password, hash) ==
    hash_password(password, hash.salt).digest = hash.digest

\* an expiry that ignores the environment
expiry_hours_default(env) == TOKEN_EXPIRY_HOURS

\* TOKEN_EXPIRY_HOURS from the environment, or the default
expiry_hours(env) ==
    IF env = "unset" \/ ParseI64(env) = {} THEN TOKEN_EXPIRY_HOURS
    ELSE CHOOSE n \in ParseI64(env) : TRUE

\* the HS256 JWT of the claims: a function of the claims and the key alone
encode(claims, key) ==
    [sub |-> claims.sub, email |-> claims.email, tier |-> claims.tier,
     exp |-> claims.exp, iat |-> claims.iat, key |-> key]

\* generate_token that puts another id than the user's into sub
generate_token_other_sub(user, t, env) ==
    LET exp == t + expiry_hours(env)
        claims == [sub |-> user.id + 1, email |-> user.email, tier |-> user.tier,
                   exp |-> exp, iat |-> t]
    IN  [token |-> encode(claims, jwt_secret), exp |-> exp]

generate_token(user, t, env) ==
    LET exp == t + expiry_hours(env)
        claims == [sub |-> user.id, email |-> user.email, tier |-> user.tier,
                   exp |-> exp, iat |-> t]
    IN  [token |-> encode(claims, jwt_secret), exp |-> exp]

\* decode that does not check the signature
verify_token_unsigned(token, t) ==
    IF ~(token.exp < t)
    THEN {[sub |-> token.sub, email |-> token.email, tier |-> token.tier,
           exp |-> token.exp, iat |-> token.iat]}
    ELSE {}

\* decode with Validation::default(): the signature must be the secret's and
\* exp must not lie before the current time less the leeway; the default
\* leeway of 60 seconds is below the unit of the clock, so that a token is
\* rejected from the first whole unit after exp on
verify_token(token, t) ==
    IF token.key = jwt_secret /\ ~(token.exp < t)
    THEN {[sub |-> token.sub, email |-> token.email, tier |-> token.tier,
           exp |-> token.exp, iat |-> token.iat]}
    ELSE {}

\* hash_token that stores the token as it is
hash_token_plain(token) == token

\* base64(sha256(token)): one-way, never equal to the token itself
hash_token(token) == [sha256 |-> token]

(***************************************************************************)
(* AuthService: the operations, each a function of the request, the store  *)
(* and the clock.  The outcome carries the Result (ok, err, token, user),  *)
(* the store after the call and the number of uuids drawn.                 *)
(***************************************************************************)
Outcome(ok, err, token, user, U, S, drawn, count) ==
    [ok |-> ok, err |-> err, token |-> token, user |-> user,
     users |-> U, sessions |-> S, drawn |-> drawn, count |-> count]

Fail(err, U, S) == Outcome(FALSE, err, {}, {}, U, S, 0, 0)

\* a session insert that binds the creation time as expires_at
SessionRow_created(id, user_id, token_hash, exp, t) ==
    [id |-> id, user_id |-> user_id, token_hash |-> token_hash,
     device_info |-> {}, ip_address |-> {},
     expires_at |-> t, created_at |-> t, last_active_at |-> t]

\* INSERT INTO user_sessions (id, user_id, token_hash, expires_at, created_at, last_active_at)
SessionRow(id, user_id, token_hash, exp, t) ==
    [id |-> id, user_id |-> user_id, token_hash |-> token_hash,
     device_info |-> {}, ip_address |-> {},
     expires_at |-> exp, created_at |-> t, last_active_at |-> t]

\* INSERT INTO users (id, email, username, password_hash, tier, created_at, updated_at);
\* the columns the statement leaves out take the schema's defaults
UserRow(id, req, password_hash, t) ==
    [id |-> id, email |-> req.email, username |-> req.username,
     display_name |-> {}, password_hash |-> {password_hash}, tier |-> "free",
     created_at |-> t, updated_at |-> t, last_login_at |-> {},
     is_active |-> TRUE, email_verified |-> FALSE]

\* register that overwrites the row of an e-mail that is already taken
register_upsert(req, salt, U, S, t, uuid, env) ==
    IF ~ContainsAt(req.email) THEN Fail("Invalid email format", U, S)
    ELSE IF \E u \in U : u.email = req.email THEN
        LET password_hash == hash_password(req.password, salt)
            U1 == {IF u.email = req.email THEN [u EXCEPT !.password_hash = {password_hash}] ELSE u
                   : u \in U}
            user == CHOOSE u \in U1 : u.email = req.email
            gt == generate_token(user, t, env)
            S1 == S \cup {SessionRow(uuid, user.id, hash_token(gt.token), gt.exp, t)}
        IN  Outcome(TRUE, "", {gt.token}, {user}, U1, S1, 1, 0)
    ELSE
        LET password_hash == hash_password(req.password, salt)
            U1 == U \cup {UserRow(uuid, req, password_hash, t)}
            user == CHOOSE u \in U1 : u.id = uuid
            gt == generate_token(user, t, env)
            S1 == S \cup {SessionRow(uuid + 1, user.id, hash_token(gt.token), gt.exp, t)}
        IN  Outcome(TRUE, "", {gt.token}, {user}, U1, S1, 2, 0)

register(req, salt, U, S, t, uuid, env) ==
    IF ~ContainsAt(req.email) THEN Fail("Invalid email format", U, S)
    ELSE IF \E u \in U : u.email = req.email THEN Fail("Email already registered", U, S)
    ELSE
        LET password_hash == hash_password(req.password, salt)
            user_id == uuid
            U1 == U \cup {UserRow(user_id, req, password_hash, t)}
            user == CHOOSE u \in U1 : u.id = user_id
            gt == generate_token(user, t, env)
            token_hash == hash_token(gt.token)
            session_id == uuid + 1
            S1 == S \cup {SessionRow(session_id, user.id, token_hash, gt.exp, t)}
        IN  Outcome(TRUE, "", {gt.token}, {user}, U1, S1, 2, 0)

\* register up to its existence check: the e-mail test and the SELECT that
\* looks for a row with the e-mail
register_check(req, U, S) ==
    IF ~ContainsAt(req.email) THEN Fail("Invalid email format", U, S)
    ELSE IF \E u \in U : u.email = req.email THEN Fail("Email already registered", U, S)
    ELSE Outcome(TRUE, "", {}, {}, U, S, 0, 0)

\* register from its INSERT INTO users on, run against the store as it is by
\* then.  The column users.email is UNIQUE: the INSERT of a taken e-mail
\* returns an error, which .context("Failed to create user") wraps and `?`
\* returns
register_insert(req, salt, U, S, t, uuid, env) ==
    IF \E u \in U : u.email = req.email THEN Fail("Failed to create user", U, S)
    ELSE register(req, salt, U, S, t, uuid, env)

\* register that undoes its user insert when the session insert fails
register_rolled_back(req, salt, U, S, t, uuid, env) ==
    IF register(req, salt, U, S, t, uuid, env).ok
    THEN Outcome(FALSE, "error returned from database", {}, {}, U, S, 2, 0)
    ELSE register(req, salt, U, S, t, uuid, env)

\* register when the INSERT INTO user_sessions returns an error (or the
\* process stops before it runs): the INSERT INTO users has been executed
\* on its own, outside any transaction, and `?` returns the error
register_interrupted(req, salt, U, S, t, uuid, env) ==
    IF ~ContainsAt(req.email) THEN Fail("Invalid email format", U, S)
    ELSE IF \E u \in U : u.email = req.email THEN Fail("Email already registered", U, S)
    ELSE
        LET password_hash == hash_password(req.password, salt)
            user_id == uuid
            U1 == U \cup {UserRow(user_id, req, password_hash, t)}
        IN  Outcome(FALSE, "error returned from database", {}, {}, U1, S, 2, 0)

\* login that stamps last_login_at as soon as it has found the user row
login_stamp_first(req, U, S, t, uuid, env) ==
    LET found == {u \in U : u.email = req.email}
    IN  IF found = {} THEN Fail("Invalid email or password", U, S)
        ELSE
            LET user == CHOOSE u \in found : TRUE
                U1 == {IF u.id = user.id THEN [u EXCEPT !.last_login_at = {t}] ELSE u
                       : u \in U}
            IN  IF ~user.is_active THEN Fail("Account is deactivated", U1, S)
                ELSE IF user.password_hash = {} THEN Fail("Invalid email or password", U1, S)
                ELSE IF ~verify_password(req.password, CHOOSE h \in user.password_hash : TRUE)
                     THEN Fail("Invalid email or password", U1, S)
                ELSE
                    LET gt == generate_token(user, t, env)
                        S1 == S \cup {SessionRow(uuid, user.id, hash_token(gt.token), gt.exp, t)}
                    IN  Outcome(TRUE, "", {gt.token}, {user}, U1, S1, 1, 0)

login(req, U, S, t, uuid, env) ==
    LET found == {u \in U : u.email = req.email}
    IN  IF found = {} THEN Fail("Invalid email or password", U, S)
        ELSE
            LET user == CHOOSE u \in found : TRUE
            IN  IF ~user.is_active THEN Fail("Account is deactivated", U, S)
                ELSE IF user.password_hash = {} THEN Fail("Invalid email or password", U, S)
                ELSE IF ~verify_password(req.password, CHOOSE h \in user.password_hash : TRUE)
                     THEN Fail("Invalid email or password", U, S)
                ELSE
                    LET U1 == {IF u.id = user.id THEN [u EXCEPT !.last_login_at = {t}] ELSE u
                               : u \in U}
                        gt == generate_token(user, t, env)
                        token_hash == hash_token(gt.token)
                        session_id == uuid
                        S1 == S \cup {SessionRow(session_id, user.id, token_hash, gt.exp, t)}
                    IN  Outcome(TRUE, "", {gt.token}, {user}, U1, S1, 1, 0)

\* the session query with expires_at >= $2
active_sessions_inclusive(token_hash, S, t) ==
    {s \in S : s.token_hash = token_hash /\ s.expires_at >= t}

\* SELECT ... FROM user_sessions WHERE token_hash = $1 AND expires_at > $2
active_sessions(token_hash, S, t) ==
    {s \in S : s.token_hash = token_hash /\ s.expires_at > t}

\* verify_session that returns the identity of the token's claims
verify_session_from_claims(token, session, U, S, t) ==
    LET claims == verify_token(token, t)
        token_hash == hash_token(token)
    IN  IF claims = {} THEN Fail("Invalid or expired token", U, S)
        ELSE IF active_sessions(token_hash, S, t) = {} THEN Fail("Invalid or expired session", U, S)
        ELSE
            LET S1 == {IF s.id = session.id THEN [s EXCEPT !.last_active_at = t] ELSE s
                       : s \in S}
                c == CHOOSE c \in claims : TRUE
                found == {u \in U : u.id = c.sub}
            IN  IF found = {} THEN Fail("no rows returned by a query that expected to return at least one row", U, S1)
                ELSE Outcome(TRUE, "", {},
                             {[u EXCEPT !.email = c.email, !.tier = c.tier] : u \in found},
                             U, S1, 0, 0)

\* verify_session that also moves expires_at of the session forward
verify_session_sliding(token, session, U, S, t) ==
    LET claims == verify_token(token, t)
        token_hash == hash_token(token)
    IN  IF claims = {} THEN Fail("Invalid or expired token", U, S)
        ELSE IF active_sessions(token_hash, S, t) = {} THEN Fail("Invalid or expired session", U, S)
        ELSE
            LET S1 == {IF s.id = session.id
                       THEN [s EXCEPT !.last_active_at = t, !.expires_at = s.expires_at + 1]
                       ELSE s
                       : s \in S}
                user_id == (CHOOSE c \in claims : TRUE).sub
                found == {u \in U : u.id = user_id}
            IN  IF found = {} THEN Fail("no rows returned by a query that expected to return at least one row", U, S1)
                ELSE Outcome(TRUE, "", {}, {CHOOSE u \in found : TRUE}, U, S1, 0, 0)

\* a verification that refuses the session of a deactivated account
verify_session_active_only(token, session, U, S, t) ==
    LET claims == verify_token(token, t)
        token_hash == hash_token(token)
    IN  IF claims = {} THEN Fail("Invalid or expired token", U, S)
        ELSE IF active_sessions(token_hash, S, t) = {} THEN Fail("Invalid or expired session", U, S)
        ELSE
            LET user_id == (CHOOSE c \in claims : TRUE).sub
                found == {u \in U : u.id = user_id /\ u.is_active}
                S1 == {IF s.id = session.id THEN [s EXCEPT !.last_active_at = t] ELSE s
                       : s \in S}
            IN  IF found = {} THEN Fail("Account is deactivated", U, S)
                ELSE Outcome(TRUE, "", {}, {CHOOSE u \in found : TRUE}, U, S1, 0, 0)

\* `session` is the row fetch_optional returns when several match
verify_session(token, session, U, S, t) ==
    LET claims == verify_token(token, t)
        token_hash == hash_token(token)
    IN  IF claims = {} THEN Fail("Invalid or expired token", U, S)
        ELSE IF active_sessions(token_hash, S, t) = {} THEN Fail("Invalid or expired session", U, S)
        ELSE
            LET S1 == {IF s.id = session.id THEN [s EXCEPT !.last_active_at = t] ELSE s
                       : s \in S}
                user_id == (CHOOSE c \in claims : TRUE).sub
                found == {u \in U : u.id = user_id}
            IN  IF found = {} THEN Fail("no rows returned by a query that expected to return at least one row", U, S1)
                ELSE Outcome(TRUE, "", {}, {CHOOSE u \in found : TRUE}, U, S1, 0, 0)

\* logout that deletes every session of the token's user
logout_every_session(token, U, S) ==
    Outcome(TRUE, "", {}, {}, U, {s \in S : s.user_id # token.sub}, 0, 0)

\* logout that reports an error when no row matched
logout_strict(token, U, S) ==
    LET token_hash == hash_token(token)
    IN  IF \E s \in S : s.token_hash = token_hash
        THEN Outcome(TRUE, "", {}, {}, U, {s \in S : s.token_hash # token_hash}, 0, 0)
        ELSE Fail("Session not found", U, S)

\* DELETE FROM user_sessions WHERE token_hash = $1
logout(token, U, S) ==
    LET token_hash == hash_token(token)
    IN  Outcome(TRUE, "", {}, {}, U, {s \in S : s.token_hash # token_hash}, 0, 0)

\* a cleanup that also deletes the rows expiring at this very moment
cleanup_inclusive(U, S, t) ==
    LET gone == {s \in S : s.expires_at <= t}
    IN  Outcome(TRUE, "", {}, {}, U, S \ gone, 0, Cardinality(gone))

\* DELETE FROM user_sessions WHERE expires_at < $1
cleanup_expired_sessions(U, S, t) ==
    LET gone == {s \in S : s.expires_at < t}
    IN  Outcome(TRUE, "", {}, {}, U, S \ gone, 0, Cardinality(gone))

(***************************************************************************)
(* The service API under arbitrary callers.  A completed call is recorded  *)
(* in `call` with its arguments, the time it ran at and its Result;        *)
(* `rows` are the session rows that matched the token when it started and  *)
(* `creds_ok` tells whether some user row matched the e-mail and password. *)
(***************************************************************************)
NoCall ==
    [op |-> "none", email |-> "", password |-> "", token |-> {}, at |-> 0,
     ok |-> TRUE, err |-> "", rtoken |-> {}, ruser |-> {}, count |-> 0,
     rows |-> {}, creds_ok |-> FALSE]

CredsOk(email, password, U) ==
    \E u \in U : /\ u.email = email
                 /\ \E h \in u.password_hash : verify_password(password, h)

Record(op, email, password, token, out) ==
    [op |-> op, email |-> email, password |-> password, token |-> token, at |-> now,
     ok |-> out.ok, err |-> out.err, rtoken |-> out.token, ruser |-> out.user,
     count |-> out.count,
     rows |-> {s \in sessions : \E t \in token : s.token_hash = hash_token(t)},
     creds_ok |-> CredsOk(email, password, users)]

\* the store and the bookkeeping after a call with outcome `out`
Apply(out) ==
    /\ users' = out.users
    /\ sessions' = out.sessions
    /\ next_uuid' = next_uuid + out.drawn
    /\ issued' = issued \cup out.token

CallRegister(email, password) ==
    \E salt \in Salts :
        LET req == [email |-> email, username |-> {"name"}, password |-> password]
            out == register(req, salt, users, sessions, now, next_uuid, env_ttl)
        IN  /\ next_uuid + out.drawn <= MaxUuid + 1
            /\ Apply(out)
            /\ call' = Record("register", email, password, {}, out)
            /\ registered' = registered \cup
                   {[token |-> t, user |-> u, password |-> password]
                    : t \in out.token, u \in out.user}
            /\ UNCHANGED <<now, env_ttl, revoked>>

\* a register whose session insert fails
CallRegisterInterrupted(email, password) ==
    \E salt \in Salts :
        LET req == [email |-> email, username |-> {"name"}, password |-> password]
            out == register_interrupted(req, salt, users, sessions, now, next_uuid, env_ttl)
        IN  /\ register(req, salt, users, sessions, now, next_uuid, env_ttl).ok
            /\ next_uuid + out.drawn <= MaxUuid + 1
            /\ Apply(out)
            /\ call' = Record("register", email, password, {}, out)
            /\ UNCHANGED <<now, env_ttl, revoked, registered>>

CallLogin(email, password) ==
    LET req == [email |-> email, password |-> password]
        out == login(req, users, sessions, now, next_uuid, env_ttl)
    IN  /\ next_uuid + out.drawn <= MaxUuid + 1
        /\ Apply(out)
        /\ call' = Record("login", email, password, {}, out)
        /\ UNCHANGED <<now, env_ttl, revoked, registered>>

\* a token a caller may present: one it was given, or one it made up itself
Forged(token) == [token EXCEPT !.key = OtherKey, !.exp = token.exp + 1]

Presentable == issued \cup {Forged(t) : t \in issued}

CallVerifySession(token) ==
    LET matching == active_sessions(hash_token(token), sessions, now)
    IN  \E session \in IF matching = {} THEN {NoCall} ELSE matching :
            LET out == verify_session(token, session, users, sessions, now)
            IN  /\ Apply(out)
                /\ call' = Record("verify_session", "", "", {token}, out)
                /\ UNCHANGED <<now, env_ttl, revoked, registered>>

CallLogout(token) ==
    LET out == logout(token, users, sessions)
    IN  /\ Apply(out)
        /\ call' = Record("logout", "", "", {token}, out)
        /\ revoked' = revoked \cup {token}
        /\ UNCHANGED <<now, env_ttl, registered>>

CallCleanup ==
    LET out == cleanup_expired_sessions(users, sessions, now)
    IN  /\ Apply(out)
        /\ call' = Record("cleanup_expired_sessions", "", "", {}, out)
        /\ UNCHANGED <<now, env_ttl, revoked, registered>>

\* the clock advances
Tick(limit) ==
    /\ now < limit
    /\ now' = now + 1
    /\ UNCHANGED <<users, sessions, next_uuid, env_ttl, issued, revoked, registered, call>>

\* users.is_active is read by login and written only outside this program
\* (an administrator disables the account)
AdminDeactivate(id) ==
    /\ \E u \in users : u.id = id /\ u.is_active
    /\ users' = {IF u.id = id THEN [u EXCEPT !.is_active = FALSE] ELSE u : u \in users}
    /\ UNCHANGED <<sessions, now, next_uuid, env_ttl, issued, revoked, registered, call>>

\* users.tier is read by generate_token and returned by verify_session, and
\* written only outside this program (a plan change)
AdminSetTier(id, tier) ==
    /\ \E u \in users : u.id = id /\ u.tier # tier
    /\ users' = {IF u.id = id THEN [u EXCEPT !.tier = tier] ELSE u : u \in users}
    /\ UNCHANGED <<sessions, now, next_uuid, env_ttl, issued, revoked, registered, call>>

InitStore ==
    /\ users = {}
    /\ sessions = {}
    /\ now = 0
    /\ next_uuid = 1
    /\ env_ttl \in EnvTtlValues
    /\ issued = {}
    /\ revoked = {}
    /\ registered = {}
    /\ call = NoCall

NextAuth ==
    \/ \E email \in RegisterEmails, password \in Passwords : CallRegister(email, password)
    \/ \E email \in RegisterEmails, password \in Passwords :
           CallRegisterInterrupted(email, password)
    \/ \E email \in LoginEmails, password \in Passwords : CallLogin(email, password)
    \/ \E token \in Presentable : CallVerifySession(token)
    \/ \E token \in issued : CallLogout(token)
    \/ CallCleanup
    \/ Tick(MaxTime)
    \/ \E u \in users : AdminDeactivate(u.id)

(***************************************************************************)
(* The client: App (tui/app.rs) driven by the tick loop of run_tui         *)
(* (main.rs).  A typed line is the sequence of its whitespace-separated    *)
(* words.  Vec<Message> is kept by its length and its last element.  An    *)
(* mpsc channel of capacity 1 is the record [buf, closed] held by the      *)
(* receiver: closed tells that every sender is gone.  A spawned task is a  *)
(* record [kind, req, live]; live tells that the receiver of its channel   *)
(* still exists.                                                           *)
(***************************************************************************)
VARIABLES
    pc,                    \* where the tick loop stands
    input,                 \* App.input
    is_loading,            \* App.is_loading
    ai_response_rx,        \* App.ai_response_rx
    auth_response_rx,      \* App.auth_response_rx
    tasks,                 \* the tasks tokio::spawn started that have not ended
    user_email,            \* App.user_email
    user_tier,             \* App.user_tier
    config_user,           \* App.config.user
    messages,              \* App.messages
    conversation_history,  \* App.conversation_history
    auth_service,          \* App.auth_service is Some
    show_exit_animation,   \* App.show_exit_animation
    submitted,             \* the outcome of the last submit_input
    ninputs                \* number of submitted lines that were accepted

cvars == <<pc, input, is_loading, ai_response_rx, auth_response_rx, tasks,
           user_email, user_tier, config_user, messages, conversation_history,
           auth_service, show_exit_animation, submitted, ninputs>>

vars == <<svars, cvars>>

\* the lines a user may submit
ChatText == <<"hello">>
Lines ==
    {<< >>, ChatText,
     <<"/login", "a@x", "pw1">>, <<"/login", "a@x", "pw2">>, <<"/login">>,
     <<"/register", "a@x", "name", "pw1">>,
     <<"/logout">>, <<"/help">>, <<"/clear">>, <<"/quit">>}

\* what client.chat(history) may return
ChatResults == {[ok |-> TRUE, text |-> "answer"], [ok |-> FALSE, text |-> "timeout"]}

SystemPrompt == [role |-> "system", content |-> "prompt"]

\* SlashCommand::parse: None for a line that does not start with '/'
parse(line) ==
    IF line = << >> \/ line[1] \notin {"/login", "/register", "/logout", "/help", "/clear", "/quit"}
    THEN {}
    ELSE IF line[1] = "/login" THEN
        IF Len(line) >= 3
        THEN {[cmd |-> "Login", email |-> line[2], username |-> "", password |-> line[3]]}
        ELSE {[cmd |-> "Unknown", email |-> "", username |-> "", password |-> ""]}
    ELSE IF line[1] = "/register" THEN
        IF Len(line) >= 4
        THEN {[cmd |-> "Register", email |-> line[2], username |-> line[3], password |-> line[4]]}
        ELSE {[cmd |-> "Unknown", email |-> "", username |-> "", password |-> ""]}
    ELSE {[cmd |-> CASE line[1] = "/logout" -> "Logout"
                     [] line[1] = "/help" -> "Help"
                     [] line[1] = "/clear" -> "Clear"
                     [] line[1] = "/quit" -> "Quit",
           email |-> "", username |-> "", password |-> ""]}

\* self.messages.push(Message::<role>(content))
push(msgs, role, content) ==
    [len |-> msgs.len + 1, last |-> [role |-> role, content |-> content]]

\* mpsc::channel(1): the receiver of a fresh channel with one live sender
NewChannel == {[buf |-> << >>, closed |-> FALSE]}

\* rx.try_recv()
try_recv(rx) ==
    IF rx.buf # << >> THEN [status |-> "Ok", value |-> <<rx.buf[1]>>]
    ELSE IF rx.closed THEN [status |-> "Disconnected", value |-> << >>]
    ELSE [status |-> "Empty", value |-> << >>]

\* tx.send(value) followed by the drop of tx, on the receiver's side
send(rx, value) == {[buf |-> Append(r.buf, value), closed |-> TRUE] : r \in rx}

\* a drop of tx that the receiver does not notice
drop_unnoticed(rx) == rx

\* the drop of tx without a send
drop(rx) == {[buf |-> r.buf, closed |-> TRUE] : r \in rx}

\* a trim that keeps the system prompt and the 20 oldest entries after it
trim_oldest(history) ==
    IF Len(history) > HistoryLimit
    THEN SubSeq(history, 1, HistoryKeep + 1)
    ELSE history

\* the history kept when it has grown past the limit: the system prompt and
\* the last 20 entries
trim(history) ==
    IF Len(history) > HistoryLimit
    THEN <<history[1]>> \o SubSeq(history, Len(history) - HistoryKeep + 1, Len(history))
    ELSE history

\* the tasks of a category lose their receiver when a new channel replaces it
Orphan(ts, kinds) ==
    [i \in 1..Len(ts) |-> IF ts[i].kind \in kinds THEN [ts[i] EXCEPT !.live = FALSE] ELSE ts[i]]

Task(kind, email, password, token, history) ==
    [kind |-> kind, email |-> email, password |-> password, token |-> token,
     history |-> history, live |-> TRUE, attempt |-> 0, backoff |-> 0]

\* error.contains(needle) on the error texts of the model
Contains(error, needle) ==
    CASE needle = "already registered" -> error = "Email already registered"
      [] needle = "Invalid email or password" -> error = "Invalid email or password"
      [] needle = "Invalid email format" -> error = "Invalid email format"
      [] needle = "deactivated" -> error = "Account is deactivated"
      [] needle = "timeout" -> error = "timeout"
      [] OTHER -> FALSE

\* the message check_auth_response shows for an Err(error)
friendly_auth_error(error) ==
    IF Contains(error, "already registered")
        THEN "Email is already registered. Try logging in instead."
    ELSE IF Contains(error, "Invalid email or password")
        THEN "Invalid email or password. Please try again."
    ELSE IF Contains(error, "Invalid email format")
        THEN "Invalid email format. Please use a valid email address."
    ELSE IF Contains(error, "deactivated")
        THEN "Account is deactivated. Contact support for assistance."
    ELSE "Authentication error"

\* the message check_ai_response shows for an Err(error)
friendly_ai_error(error) ==
    IF Contains(error, "timeout")
        THEN "Request timed out. The AI service might be busy. Please try again."
    ELSE "AI service error"

\* submit_input returns at once on an empty line, or with is_loading with
\* every kind of line
gate_without_loading(line) == line = << >>

\* a gate that looks only at the mailbox of the line's own category
gate_per_category(line) ==
    IF line = << >>
    THEN TRUE
    ELSE \/ line[1] \in {"/login", "/register"} /\ auth_response_rx # {}
         \/ line[1] \notin {"/login", "/register", "/logout", "/help", "/clear", "/quit"}
                /\ ai_response_rx # {}

\* a gate that lets /logout through while an operation is outstanding
gate_except_logout(line) ==
    IF line = << >> THEN TRUE ELSE is_loading /\ line[1] # "/logout"

gate(line) == line = << >> \/ is_loading

\* handle_slash_command, arms Login and Register
StartAuth(cmd) ==
    IF ~auth_service
    THEN /\ messages' = push(messages, "error", "Authentication service unavailable. Check DATABASE_URL.")
         /\ input' = << >>
         /\ submitted' = "unavailable"
         /\ UNCHANGED <<is_loading, ai_response_rx, auth_response_rx, tasks, user_email,
                        user_tier, config_user, conversation_history, show_exit_animation>>
    ELSE /\ messages' = push(messages, "system",
                             IF cmd.cmd = "Login" THEN "Logging in..." ELSE "Creating account...")
         /\ is_loading' = TRUE
         /\ auth_response_rx' = NewChannel
         /\ tasks' = Append(Orphan(tasks, {"login", "register"}),
                            Task(IF cmd.cmd = "Login" THEN "login" ELSE "register",
                                 cmd.email, cmd.password, {}, << >>))
         /\ input' = << >>
         /\ submitted' = "auth"
         /\ UNCHANGED <<ai_response_rx, user_email, user_tier, config_user,
                        conversation_history, show_exit_animation>>

\* the arm Logout that keeps the client signed in when config.save() fails
Logout_unless_save_fails ==
    /\ tasks' = IF auth_service /\ \E u \in config_user : u.token # {}
                THEN Append(tasks, Task("logout", "", "",
                                        (CHOOSE u \in config_user : TRUE).token, << >>))
                ELSE tasks
    /\ \E saved \in BOOLEAN :
          IF saved
          THEN /\ messages' = push(messages, "system", "Logged out successfully")
               /\ config_user' = {}
               /\ user_email' = {}
               /\ user_tier' = "free"
          ELSE /\ messages' = push(messages, "error", "Failed to save config")
               /\ UNCHANGED <<config_user, user_email, user_tier>>
    /\ input' = << >>
    /\ submitted' = "logout"
    /\ UNCHANGED <<is_loading, ai_response_rx, auth_response_rx, conversation_history,
                   show_exit_animation>>

\* the arm Logout that also forgets the conversation
Logout_forgets_history ==
    /\ tasks' = IF auth_service /\ \E u \in config_user : u.token # {}
                THEN Append(tasks, Task("logout", "", "",
                                        (CHOOSE u \in config_user : TRUE).token, << >>))
                ELSE tasks
    /\ config_user' = {}
    /\ user_email' = {}
    /\ user_tier' = "free"
    /\ \E saved \in BOOLEAN :
          messages' = IF saved THEN push(messages, "system", "Logged out successfully")
                      ELSE push(messages, "error", "Failed to save config")
    /\ conversation_history' = <<conversation_history[1]>>
    /\ input' = << >>
    /\ submitted' = "logout"
    /\ UNCHANGED <<is_loading, ai_response_rx, auth_response_rx, show_exit_animation>>

\* handle_slash_command, arm Logout
Logout ==
    /\ tasks' = IF auth_service /\ \E u \in config_user : u.token # {}
                THEN Append(tasks, Task("logout", "", "",
                                        (CHOOSE u \in config_user : TRUE).token, << >>))
                ELSE tasks
    /\ config_user' = {}
    /\ user_email' = {}
    /\ user_tier' = "free"
    /\ \E saved \in BOOLEAN :
          messages' = IF saved THEN push(messages, "system", "Logged out successfully")
                      ELSE push(messages, "error", "Failed to save config")
    /\ input' = << >>
    /\ submitted' = "logout"
    /\ UNCHANGED <<is_loading, ai_response_rx, auth_response_rx, conversation_history,
                   show_exit_animation>>

\* arms that start nothing, with a Clear that also forgets the conversation
Local_clears_history(cmd) ==
    /\ messages' = CASE cmd.cmd = "Help" -> push(messages, "system", "QHub Commands")
                     [] cmd.cmd = "Clear" -> push([len |-> 0, last |-> messages.last],
                                                  "system", "Chat cleared.")
                     [] cmd.cmd = "Unknown" -> push(messages, "error", "Unknown command or invalid syntax")
                     [] OTHER -> messages
    /\ conversation_history' = IF cmd.cmd = "Clear" THEN <<conversation_history[1]>>
                               ELSE conversation_history
    /\ show_exit_animation' = IF cmd.cmd = "Quit" THEN TRUE ELSE show_exit_animation
    /\ input' = << >>
    /\ submitted' = "local"
    /\ UNCHANGED <<is_loading, ai_response_rx, auth_response_rx, tasks, user_email,
                   user_tier, config_user>>

\* handle_slash_command, the arms that start nothing
Local(cmd) ==
    /\ messages' = CASE cmd.cmd = "Help" -> push(messages, "system", "QHub Commands")
                     [] cmd.cmd = "Clear" -> push([len |-> 0, last |-> messages.last],
                                                  "system", "Chat cleared.")
                     [] cmd.cmd = "Unknown" -> push(messages, "error", "Unknown command or invalid syntax")
                     [] OTHER -> messages
    /\ show_exit_animation' = IF cmd.cmd = "Quit" THEN TRUE ELSE show_exit_animation
    /\ input' = << >>
    /\ submitted' = "local"
    /\ UNCHANGED <<is_loading, ai_response_rx, auth_response_rx, tasks, user_email,
                   user_tier, config_user, conversation_history>>

handle_slash_command(cmd) ==
    CASE cmd.cmd \in {"Login", "Register"} -> StartAuth(cmd)
      [] cmd.cmd = "Logout" -> Logout
      [] OTHER -> Local(cmd)

\* a chat branch that does not look at user_email
StartChat_anyone(line) ==
    LET history == trim(Append(conversation_history, [role |-> "user", content |-> line[1]]))
    IN  /\ messages' = push(messages, "user", line[1])
        /\ conversation_history' = history
        /\ is_loading' = TRUE
        /\ ai_response_rx' = NewChannel
        /\ tasks' = Append(Orphan(tasks, {"chat"}), Task("chat", "", "", {}, history))
        /\ input' = << >>
        /\ submitted' = "chat"
        /\ UNCHANGED <<auth_response_rx, user_email, user_tier, config_user,
                       show_exit_animation>>

\* submit_input, the branch of a line that is no command
StartChat(line) ==
    IF user_email = {}
    THEN /\ messages' = push(messages, "error", "Authentication required. Please /login or /register first.")
         /\ submitted' = "unauthenticated"
         /\ input' = line
         /\ UNCHANGED <<is_loading, ai_response_rx, auth_response_rx, tasks, user_email,
                        user_tier, config_user, conversation_history, show_exit_animation>>
    ELSE LET history == trim(Append(conversation_history, [role |-> "user", content |-> line[1]]))
         IN  /\ messages' = push(messages, "user", line[1])
             /\ conversation_history' = history
             /\ is_loading' = TRUE
             /\ ai_response_rx' = NewChannel
             /\ tasks' = Append(Orphan(tasks, {"chat"}), Task("chat", "", "", {}, history))
             /\ input' = << >>
             /\ submitted' = "chat"
             /\ UNCHANGED <<auth_response_rx, user_email, user_tier, config_user,
                            show_exit_animation>>

\* a submit_input whose rejection clears the typed line
submit_input_clears(line) ==
    IF gate(line)
    THEN /\ submitted' = "rejected"
         /\ input' = << >>
         /\ UNCHANGED <<is_loading, ai_response_rx, auth_response_rx, tasks, user_email,
                        user_tier, config_user, messages, conversation_history,
                        show_exit_animation>>
    ELSE IF parse(line) # {}
         THEN handle_slash_command(CHOOSE cmd \in parse(line) : TRUE)
         ELSE StartChat(line)

\* App::submit_input when self.input holds `line`
submit_input(line) ==
    IF gate(line)
    THEN /\ submitted' = "rejected"
         /\ input' = line
         /\ UNCHANGED <<is_loading, ai_response_rx, auth_response_rx, tasks, user_email,
                        user_tier, config_user, messages, conversation_history,
                        show_exit_animation>>
    ELSE IF parse(line) # {}
         THEN handle_slash_command(CHOOSE cmd \in parse(line) : TRUE)
         ELSE StartChat(line)

\* a poll that leaves the receiver in place after it took the result
keep_mailbox(rx) == rx

\* self.ai_response_rx = None / self.auth_response_rx = None
clear_mailbox(rx) == {}

\* App::check_ai_response
check_ai_response ==
    IF ai_response_rx = {}
    THEN UNCHANGED <<is_loading, ai_response_rx, messages, conversation_history>>
    ELSE LET got == try_recv(CHOOSE rx \in ai_response_rx : TRUE)
         IN  CASE got.status = "Ok" /\ got.value[1].ok ->
                    /\ conversation_history' =
                           Append(conversation_history,
                                  [role |-> "assistant", content |-> got.value[1].text])
                    /\ messages' = push(messages, "assistant", got.value[1].text)
                    /\ is_loading' = FALSE
                    /\ ai_response_rx' = clear_mailbox(ai_response_rx)
               [] got.status = "Ok" /\ ~got.value[1].ok ->
                    /\ messages' = push(messages, "error", friendly_ai_error(got.value[1].text))
                    /\ is_loading' = FALSE
                    /\ ai_response_rx' = clear_mailbox(ai_response_rx)
                    /\ UNCHANGED conversation_history
               [] got.status = "Empty" ->
                    UNCHANGED <<is_loading, ai_response_rx, messages, conversation_history>>
               [] got.status = "Disconnected" ->
                    /\ messages' = push(messages, "error", "AI request failed unexpectedly. Please try again.")
                    /\ is_loading' = FALSE
                    /\ ai_response_rx' = clear_mailbox(ai_response_rx)
                    /\ UNCHANGED conversation_history

\* UserConfig { email, token: Some(token), tier } without the token
UserConfig_without_token(email, token, tier) ==
    [email |-> email, token |-> {}, tier |-> tier]

\* crate::config::settings::UserConfig { email, token: Some(token), tier }
UserConfig(email, token, tier) ==
    [email |-> email, token |-> token, tier |-> tier]

\* the arm Ok(Err(error)) that also signs the client out
AuthErr_signs_out(error) ==
    /\ messages' = push(messages, "error", friendly_auth_error(error))
    /\ is_loading' = FALSE
    /\ auth_response_rx' = {}
    /\ user_email' = {}
    /\ UNCHANGED <<config_user, user_tier>>

\* the arm Ok(Err(error)) that leaves the busy flag set
AuthErr_stays_busy(error) ==
    /\ messages' = push(messages, "error", friendly_auth_error(error))
    /\ auth_response_rx' = clear_mailbox(auth_response_rx)
    /\ UNCHANGED <<is_loading, config_user, user_email, user_tier>>

\* check_auth_response, arm Ok(Ok((token, email, tier)))
AuthOk(r, saved) ==
    /\ config_user' = {UserConfig(r.email, r.token, r.tier)}
    /\ IF ~saved
       THEN /\ messages' = push(messages, "error", "Failed to save config")
            /\ UNCHANGED <<user_email, user_tier>>
       ELSE /\ user_email' = {r.email}
            /\ user_tier' = r.tier
            /\ messages' = push(messages, "system", "Logged in successfully")
    /\ is_loading' = FALSE
    /\ auth_response_rx' = clear_mailbox(auth_response_rx)

\* check_auth_response, arm Ok(Err(error))
AuthErr(error) ==
    /\ messages' = push(messages, "error", friendly_auth_error(error))
    /\ is_loading' = FALSE
    /\ auth_response_rx' = clear_mailbox(auth_response_rx)
    /\ UNCHANGED <<config_user, user_email, user_tier>>

\* App::check_auth_response; `saved` tells whether config.save() succeeds
check_auth_response(saved) ==
    IF auth_response_rx = {}
    THEN UNCHANGED <<is_loading, auth_response_rx, messages, config_user, user_email, user_tier>>
    ELSE LET got == try_recv(CHOOSE rx \in auth_response_rx : TRUE)
         IN  CASE got.status = "Ok" /\ got.value[1].ok -> AuthOk(got.value[1], saved)
               [] got.status = "Ok" /\ ~got.value[1].ok -> AuthErr(got.value[1].text)
               [] got.status = "Empty" ->
                    UNCHANGED <<is_loading, auth_response_rx, messages, config_user,
                                user_email, user_tier>>
               [] got.status = "Disconnected" ->
                    /\ messages' = push(messages, "error", "Authentication request failed. Please try again.")
                    /\ is_loading' = FALSE
                    /\ auth_response_rx' = clear_mailbox(auth_response_rx)
                    /\ UNCHANGED <<config_user, user_email, user_tier>>

(***************************************************************************)
(* The tick loop of run_tui: check_ai_response, check_auth_response, then  *)
(* one round of handle_events.                                             *)
(***************************************************************************)
LoopCheckAi ==
    /\ pc = "check_ai"
    /\ check_ai_response
    /\ pc' = "check_auth"
    /\ UNCHANGED <<input, auth_response_rx, tasks, user_email, user_tier, config_user,
                   auth_service, show_exit_animation, submitted, ninputs>>
    /\ UNCHANGED svars

LoopCheckAuth ==
    /\ pc = "check_auth"
    /\ \E saved \in BOOLEAN : check_auth_response(saved)
    /\ pc' = "events"
    /\ UNCHANGED <<input, ai_response_rx, tasks, conversation_history,
                   auth_service, show_exit_animation, submitted, ninputs>>
    /\ UNCHANGED svars

\* handle_events when event::poll times out
NoEvent ==
    /\ pc = "events"
    /\ pc' = "check_ai"
    /\ UNCHANGED <<input, is_loading, ai_response_rx, auth_response_rx, tasks, user_email,
                   user_tier, config_user, messages, conversation_history, auth_service,
                   show_exit_animation, submitted, ninputs>>
    /\ UNCHANGED svars

\* uuids the auth task of a line will draw
Draws(line) ==
    IF line # << >> /\ line[1] = "/register" /\ Len(line) >= 4 THEN 2
    ELSE IF line # << >> /\ line[1] = "/login" /\ Len(line) >= 3 THEN 1
    ELSE 0

\* handle_events on the keys that edit self.input to `line` and then Enter;
\* at most `cap` submitted lines are accepted
KeyEnter(line, cap) ==
    /\ pc = "events"
    /\ gate(line) \/ (ninputs < cap /\ next_uuid + Draws(line) <= MaxUuid + 1)
    /\ submit_input(line)
    /\ ninputs' = IF submitted' = "rejected" THEN ninputs ELSE ninputs + 1
    /\ pc' = "check_ai"
    /\ UNCHANGED auth_service
    /\ UNCHANGED svars

(***************************************************************************)
(* The spawned tasks.  A task runs its call and sends the Result into its  *)
(* channel; the send is lost when the receiver is gone.                    *)
(***************************************************************************)
Remove(ts, i) == SubSeq(ts, 1, i - 1) \o SubSeq(ts, i + 1, Len(ts))

\* tokio::spawn(async move { client.chat(history).await ... tx.send(..) })
TaskChat(i) ==
    /\ tasks[i].kind = "chat"
    /\ \E r \in ChatResults :
          ai_response_rx' = IF tasks[i].live THEN send(ai_response_rx, r) ELSE ai_response_rx
    /\ tasks' = Remove(tasks, i)
    /\ UNCHANGED <<pc, input, is_loading, auth_response_rx, user_email, user_tier, config_user,
                   messages, conversation_history, auth_service, show_exit_animation,
                   submitted, ninputs>>
    /\ UNCHANGED svars

\* Ok((auth_resp.token, auth_resp.user.email, auth_resp.user.tier)) or Err(e.to_string())
AuthResponseOf(c) ==
    IF c.ok
    THEN [ok |-> TRUE, text |-> "", token |-> c.rtoken,
          email |-> (CHOOSE u \in c.ruser : TRUE).email,
          tier |-> (CHOOSE u \in c.ruser : TRUE).tier]
    ELSE [ok |-> FALSE, text |-> c.err, token |-> {}, email |-> "", tier |-> ""]

\* tokio::spawn(async move { auth_service.login(..).await ... tx.send(..) })
TaskLogin(i) ==
    /\ tasks[i].kind = "login"
    /\ CallLogin(tasks[i].email, tasks[i].password)
    /\ auth_response_rx' = IF tasks[i].live THEN send(auth_response_rx, AuthResponseOf(call'))
                           ELSE auth_response_rx
    /\ tasks' = Remove(tasks, i)
    /\ UNCHANGED <<pc, input, is_loading, ai_response_rx, user_email, user_tier, config_user,
                   messages, conversation_history, auth_service, show_exit_animation,
                   submitted, ninputs>>

\* tokio::spawn(async move { auth_service.register(..).await ... tx.send(..) })
TaskRegister(i) ==
    /\ tasks[i].kind = "register"
    /\ CallRegister(tasks[i].email, tasks[i].password)
    /\ auth_response_rx' = IF tasks[i].live THEN send(auth_response_rx, AuthResponseOf(call'))
                           ELSE auth_response_rx
    /\ tasks' = Remove(tasks, i)
    /\ UNCHANGED <<pc, input, is_loading, ai_response_rx, user_email, user_tier, config_user,
                   messages, conversation_history, auth_service, show_exit_animation,
                   submitted, ninputs>>

\* tokio::spawn(async move { let _ = service.logout(&token).await; })
TaskLogout(i) ==
    /\ tasks[i].kind = "logout"
    /\ \E token \in tasks[i].token : CallLogout(token)
    /\ tasks' = Remove(tasks, i)
    /\ UNCHANGED <<pc, input, is_loading, ai_response_rx, auth_response_rx, user_email,
                   user_tier, config_user, messages, conversation_history, auth_service,
                   show_exit_animation, submitted, ninputs>>

(***************************************************************************)
(* DeepSeekClient::chat, one HTTP attempt at a time.  The local `attempt`   *)
(* of the call and the length of its last sleep are kept in the task.  The *)
(* client is built with a total timeout of 120 seconds, so every send      *)
(* returns a response or an error.                                         *)
(***************************************************************************)
max_retries == 3

\* what one send().await, and the read of the body after it, may give
Responses ==
    {"200", "200 without choices", "200 undecodable", "429", "500", "timeout", "connect error"}

\* a loop that also retries after a 500
retries_server_errors(response, attempt) ==
    response \in {"429", "500", "timeout"} /\ attempt < max_retries

\* the two `continue` arms of the match: a 429 or a timeout with
\* attempt < max_retries
retries(response, attempt) ==
    \/ response = "429" /\ attempt < max_retries
    \/ response = "timeout" /\ attempt < max_retries

\* the Result the call returns when the attempt is its last
chat_result(response) ==
    CASE response = "200" -> [ok |-> TRUE, text |-> "answer"]
      [] response = "200 without choices" -> [ok |-> FALSE, text |-> "No response from AI"]
      [] response = "200 undecodable" -> [ok |-> FALSE, text |-> "error decoding response body"]
      [] response = "timeout" -> [ok |-> FALSE, text |-> "timeout"]
      [] response = "connect error" -> [ok |-> FALSE, text |-> "error sending request"]
      [] OTHER -> [ok |-> FALSE, text |-> "API error"]

\* one turn of the loop of chat in the chat task i
ChatAttempt(i, response) ==
    /\ tasks[i].kind = "chat"
    /\ LET attempt == tasks[i].attempt + 1
       IN  IF retries(response, attempt)
           THEN /\ tasks' = [tasks EXCEPT ![i].attempt = attempt, ![i].backoff = 2^attempt]
                /\ UNCHANGED ai_response_rx
           ELSE /\ ai_response_rx' = IF tasks[i].live
                                     THEN send(ai_response_rx, chat_result(response))
                                     ELSE ai_response_rx
                /\ tasks' = Remove(tasks, i)
    /\ UNCHANGED <<pc, input, is_loading, auth_response_rx, user_email, user_tier, config_user,
                   messages, conversation_history, auth_service, show_exit_animation,
                   submitted, ninputs>>
    /\ UNCHANGED svars

\* the logout task when the DELETE returns an error (the connection to the
\* store is lost): `let _ =` drops the Err and the task ends
TaskLogoutFails(i) ==
    /\ tasks[i].kind = "logout"
    /\ call' = Record("logout", "", "", tasks[i].token,
                      Fail("error returned from database", users, sessions))
    /\ tasks' = Remove(tasks, i)
    /\ UNCHANGED <<users, sessions, now, next_uuid, env_ttl, issued, revoked, registered>>
    /\ UNCHANGED <<pc, input, is_loading, ai_response_rx, auth_response_rx, user_email,
                   user_tier, config_user, messages, conversation_history, auth_service,
                   show_exit_animation, submitted, ninputs>>

\* a task that ends without sending (it panicked): its sender is dropped
TaskAbort(i) ==
    /\ tasks[i].kind \in {"chat", "login", "register"}
    /\ ai_response_rx' = IF tasks[i].live /\ tasks[i].kind = "chat"
                         THEN drop(ai_response_rx) ELSE ai_response_rx
    /\ auth_response_rx' = IF tasks[i].live /\ tasks[i].kind # "chat"
                           THEN drop(auth_response_rx) ELSE auth_response_rx
    /\ tasks' = Remove(tasks, i)
    /\ UNCHANGED <<pc, input, is_loading, user_email, user_tier, config_user,
                   messages, conversation_history, auth_service, show_exit_animation,
                   submitted, ninputs>>
    /\ UNCHANGED svars

(***************************************************************************)
(* App::new and the specifications.                                        *)
(***************************************************************************)
\* config.user as Config::load may find it: absent, or a user without a token
StoredUsers == {{}, {[email |-> "a@x", token |-> {}, tier |-> "free"]}}

\* App::new on a store that holds no session
InitClient(services, stored) ==
    /\ pc = "check_ai"
    /\ input = << >>
    /\ is_loading = FALSE
    /\ ai_response_rx = {}
    /\ auth_response_rx = {}
    /\ tasks = << >>
    /\ auth_service \in services
    /\ config_user \in stored
    /\ user_email = {u.email : u \in config_user}
    /\ user_tier = IF config_user = {} THEN "free" ELSE (CHOOSE u \in config_user : TRUE).tier
    /\ messages = push([len |-> 0, last |-> [role |-> "system", content |-> ""]],
                       "system", "Welcome")
    /\ conversation_history = <<SystemPrompt>>
    /\ show_exit_animation = FALSE
    /\ submitted = "none"
    /\ ninputs = 0

(***************************************************************************)
(* register calls of several processes against the one store.  The calls   *)
(* in `tasks` have passed the existence check and have not yet run their   *)
(* INSERT INTO users; nothing orders the steps of different calls.         *)
(***************************************************************************)
RegisterCheck(email, password) ==
    LET req == [email |-> email, username |-> {"name"}, password |-> password]
        out == register_check(req, users, sessions)
    IN  /\ Len(tasks) < MaxRacers
        /\ IF out.ok
           THEN /\ tasks' = Append(tasks, Task("register", email, password, {}, << >>))
                /\ UNCHANGED svars
           ELSE /\ Apply(out)
                /\ call' = Record("register", email, password, {}, out)
                /\ UNCHANGED <<tasks, now, env_ttl, revoked, registered>>
        /\ UNCHANGED <<pc, input, is_loading, ai_response_rx, auth_response_rx, user_email,
                       user_tier, config_user, messages, conversation_history, auth_service,
                       show_exit_animation, submitted, ninputs>>

RegisterInsert(i) ==
    /\ tasks[i].kind = "register"
    /\ \E salt \in Salts :
          LET req == [email |-> tasks[i].email, username |-> {"name"},
                      password |-> tasks[i].password]
              out == register_insert(req, salt, users, sessions, now, next_uuid, env_ttl)
          IN  /\ next_uuid + out.drawn <= MaxUuid + 1
              /\ Apply(out)
              /\ call' = Record("register", tasks[i].email, tasks[i].password, {}, out)
              /\ registered' = registered \cup
                     {[token |-> t, user |-> u, password |-> tasks[i].password]
                      : t \in out.token, u \in out.user}
    /\ tasks' = Remove(tasks, i)
    /\ UNCHANGED <<now, env_ttl, revoked>>
    /\ UNCHANGED <<pc, input, is_loading, ai_response_rx, auth_response_rx, user_email,
                   user_tier, config_user, messages, conversation_history, auth_service,
                   show_exit_animation, submitted, ninputs>>

InitRace == InitStore /\ env_ttl \in {"unset", "1"} /\ InitClient({TRUE}, {{}})

NextRace ==
    \/ \E email \in RegisterEmails, password \in Passwords : RegisterCheck(email, password)
    \/ \E i \in 1..Len(tasks) : RegisterInsert(i)
    \/ \E email \in LoginEmails, password \in Passwords :
           CallLogin(email, password) /\ UNCHANGED cvars
    \/ Tick(MaxClock) /\ UNCHANGED cvars

SpecRace == InitRace /\ [][NextRace]_vars

\* the client with its store, under TOKEN_EXPIRY_HOURS=1
Init == InitStore /\ env_ttl = "1" /\ InitClient(BOOLEAN, StoredUsers)

Next ==
    \/ LoopCheckAi
    \/ LoopCheckAuth
    \/ NoEvent
    \/ \E line \in Lines : KeyEnter(line, MaxInputs)
    \/ \E i \in 1..Len(tasks) : TaskChat(i)
    \/ \E i \in 1..Len(tasks) : TaskLogin(i)
    \/ \E i \in 1..Len(tasks) : TaskRegister(i)
    \/ \E i \in 1..Len(tasks) : TaskLogout(i)
    \/ \E i \in 1..Len(tasks) : TaskAbort(i)
    \/ Tick(MaxClock) /\ UNCHANGED cvars

Spec == Init /\ [][Next]_vars

\* handle_events on Ctrl+C or Ctrl+Q returns true and run_tui leaves its loop
Quit ==
    /\ pc = "events"
    /\ pc' = "done"
    /\ UNCHANGED <<input, is_loading, ai_response_rx, auth_response_rx, tasks, user_email,
                   user_tier, config_user, messages, conversation_history, auth_service,
                   show_exit_animation, submitted, ninputs>>
    /\ UNCHANGED svars

\* the client under its scheduling: every call of the loop body returns
\* (try_recv does not block, event::poll waits at most one tick_rate), so the
\* loop goes on for as long as handle_events does not return true; nothing
\* is assumed about the spawned tasks
NextLive ==
    \/ LoopCheckAi
    \/ LoopCheckAuth
    \/ NoEvent
    \/ \E line \in Lines : KeyEnter(line, MaxInputs)
    \/ \E i \in 1..Len(tasks) : TaskChat(i)
    \/ \E i \in 1..Len(tasks) : TaskLogin(i)
    \/ \E i \in 1..Len(tasks) : TaskRegister(i)
    \/ \E i \in 1..Len(tasks) : TaskLogout(i)
    \/ \E i \in 1..Len(tasks) : TaskAbort(i)
    \/ Quit

SpecLive ==
    /\ Init
    /\ [][NextLive]_vars
    /\ WF_vars(LoopCheckAi)
    /\ WF_vars(LoopCheckAuth)
    /\ WF_vars(NoEvent)

\* the service API alone, called by arbitrary callers
InitAuth == InitStore /\ env_ttl \in {"unset", "1"} /\ InitClient({TRUE}, {{}})

SpecAuth == InitAuth /\ [][NextAuth /\ UNCHANGED cvars]_vars

\* the service under every setting of TOKEN_EXPIRY_HOURS, with accounts that
\* are changed outside the program while their tokens are in use
InitAccounts == InitStore /\ InitClient({TRUE}, {{}})

NextAccounts ==
    \/ \E email \in RegisterEmails, password \in Passwords : CallRegister(email, password)
    \/ \E email \in LoginEmails, password \in Passwords : CallLogin(email, password)
    \/ \E token \in Presentable : CallVerifySession(token)
    \/ Tick(MaxClock)
    \/ \E u \in users, tier \in Tiers : AdminSetTier(u.id, tier)

SpecAccounts == InitAccounts /\ [][NextAccounts /\ UNCHANGED cvars]_vars

\* a long conversation of a client that starts with a stored user
\* a user who registers or logs in and logs out, with a store whose
\* statements may fail; every call of the loop body returns, and the runtime
\* runs a spawned logout task until its call has returned
LogoutLines ==
    {<<"/register", "a@x", "name", "pw1">>, <<"/login", "a@x", "pw1">>, <<"/logout">>}

InitLogout == InitStore /\ env_ttl = "unset" /\ InitClient({TRUE}, {{}})

NextLogout ==
    \/ LoopCheckAi
    \/ LoopCheckAuth
    \/ NoEvent
    \/ \E line \in LogoutLines : KeyEnter(line, MaxInputs)
    \/ \E i \in 1..Len(tasks) : TaskLogin(i)
    \/ \E i \in 1..Len(tasks) : TaskRegister(i)
    \/ \E i \in 1..Len(tasks) : TaskLogout(i)
    \/ \E i \in 1..Len(tasks) : TaskLogoutFails(i)

SpecLogout ==
    /\ InitLogout
    /\ [][NextLogout]_vars
    /\ WF_vars(LoopCheckAi)
    /\ WF_vars(LoopCheckAuth)
    /\ WF_vars(NoEvent)
    /\ WF_vars(\E i \in 1..Len(tasks) : TaskLogout(i) \/ TaskLogoutFails(i))

\* a signed-in user who chats, with the chat call taken one HTTP attempt at
\* a time; every attempt returns, and every sleep ends
NextRetry ==
    \/ LoopCheckAi
    \/ LoopCheckAuth
    \/ NoEvent
    \/ \E line \in {<< >>, ChatText} : KeyEnter(line, MaxInputs)
    \/ \E i \in 1..Len(tasks), response \in Responses : ChatAttempt(i, response)

InitRetry == InitStore /\ env_ttl = "unset" /\ InitClient({FALSE}, StoredUsers \ {{}})

SpecRetry ==
    /\ InitRetry
    /\ [][NextRetry]_vars
    /\ WF_vars(\E i \in 1..Len(tasks), response \in Responses : ChatAttempt(i, response))

(***************************************************************************)
(* The start of a run on the config file and the store that earlier runs   *)
(* left behind.  pc = "new" until App::new has run.                        *)
(***************************************************************************)
\* an earlier run signed in and saved the user with the token
PriorSignIn(email, password, registers) ==
    /\ pc = "new"
    /\ IF registers THEN CallRegister(email, password) ELSE CallLogin(email, password)
    /\ call'.ok
    /\ config_user' = {UserConfig(u.email, call'.rtoken, u.tier) : u \in call'.ruser}
    /\ UNCHANGED <<pc, input, is_loading, ai_response_rx, auth_response_rx, tasks, user_email,
                   user_tier, messages, conversation_history, auth_service,
                   show_exit_animation, submitted, ninputs>>

\* the logout task of an earlier /logout whose config.save() failed: the row
\* is deleted and the file still holds the user
PriorLogout ==
    /\ pc = "new"
    /\ \E u \in config_user : \E token \in u.token : CallLogout(token)
    /\ UNCHANGED cvars

\* App::new: `service` tells whether DATABASE_URL is set and the pool connects
AppNew(service) ==
    /\ pc = "new"
    /\ auth_service' = service
    /\ IF \E u \in config_user : u.token # {} /\ service
       THEN \E u \in config_user : \E token \in u.token :
                /\ CallVerifySession(token)
                /\ user_email' = IF call'.ok THEN {v.email : v \in call'.ruser} ELSE {}
                /\ user_tier' = IF call'.ok THEN (CHOOSE v \in call'.ruser : TRUE).tier
                                ELSE "free"
       ELSE /\ user_email' = {u.email : u \in config_user}
            /\ user_tier' = IF config_user = {} THEN "free"
                            ELSE (CHOOSE u \in config_user : TRUE).tier
            /\ UNCHANGED svars
    /\ pc' = "check_ai"
    /\ UNCHANGED <<input, is_loading, ai_response_rx, auth_response_rx, tasks, config_user,
                   messages, conversation_history, show_exit_animation, submitted, ninputs>>

StartupLines == {<<"/login", "a@x", "pw1">>, <<"/login", "a@x", "pw2">>, <<"/logout">>}

InitStartup ==
    /\ InitStore /\ env_ttl = "1"
    /\ pc = "new"
    /\ input = << >>
    /\ is_loading = FALSE
    /\ ai_response_rx = {}
    /\ auth_response_rx = {}
    /\ tasks = << >>
    /\ auth_service = FALSE
    /\ config_user = {}
    /\ user_email = {}
    /\ user_tier = "free"
    /\ messages = push([len |-> 0, last |-> [role |-> "system", content |-> ""]],
                       "system", "Welcome")
    /\ conversation_history = <<SystemPrompt>>
    /\ show_exit_animation = FALSE
    /\ submitted = "none"
    /\ ninputs = 0

NextStartup ==
    \/ \E email \in RegisterEmails, password \in Passwords : PriorSignIn(email, password, TRUE)
    \/ \E email \in LoginEmails, password \in Passwords : PriorSignIn(email, password, FALSE)
    \/ PriorLogout
    \/ \E service \in BOOLEAN : AppNew(service)
    \/ LoopCheckAi
    \/ LoopCheckAuth
    \/ NoEvent
    \/ \E line \in StartupLines : KeyEnter(line, MaxInputs)
    \/ \E i \in 1..Len(tasks) : TaskLogin(i)
    \/ \E i \in 1..Len(tasks) : TaskLogout(i)
    \/ Tick(MaxClock) /\ UNCHANGED cvars

SpecStartup == InitStartup /\ [][NextStartup]_vars

\* one client used by two accounts in turn: b@x, taken from the config
\* file, chats and logs out, then a@x registers and chats
SwitchLines == {ChatText, <<"/logout">>, <<"/register", "a@x", "name", "pw1">>}

InitSwitch ==
    /\ InitStore /\ env_ttl = "unset"
    /\ InitClient({TRUE}, {{[email |-> "b@x", token |-> {}, tier |-> "free"]}})

NextSwitch ==
    \/ LoopCheckAi
    \/ LoopCheckAuth
    \/ NoEvent
    \/ \E line \in SwitchLines : KeyEnter(line, MaxSwitch)
    \/ \E i \in 1..Len(tasks) : TaskChat(i)
    \/ \E i \in 1..Len(tasks) : TaskRegister(i)
    \/ \E i \in 1..Len(tasks) : TaskLogout(i)

SpecSwitch == InitSwitch /\ [][NextSwitch]_vars

InitChat == InitStore /\ env_ttl = "unset" /\ InitClient({FALSE}, StoredUsers \ {{}})

NextChat ==
    \/ LoopCheckAi
    \/ LoopCheckAuth
    \/ NoEvent
    \/ \E line \in {<< >>, ChatText} : KeyEnter(line, MaxTurns)
    \/ \E i \in 1..Len(tasks) : TaskChat(i)
    \/ \E i \in 1..Len(tasks) : TaskAbort(i)

SpecChat == InitChat /\ [][NextChat]_vars

(***************************************************************************)
(* Claims about the client.                                                *)
(***************************************************************************)
ChatKinds == {"chat"}
AuthKinds == {"login", "register"}

NumTasks(kinds) == Cardinality({i \in 1..Len(tasks) : tasks[i].kind \in kinds})

\* an operation of the category is outstanding: started and not yet consumed
ChatOutstanding == ai_response_rx # {} \/ NumTasks(ChatKinds) > 0
AuthOutstanding == auth_response_rx # {} \/ NumTasks(AuthKinds) > 0

IsChatLine(line) == line # << >> /\ parse(line) = {}
IsAuthLine(line) == \E cmd \in parse(line) : cmd.cmd \in {"Login", "Register"}

\* the step is the Enter key on `line`, which submit_input leaves in
\* self.input or clears
Enters(line) ==
    /\ pc = "events"
    /\ input' \in {line, << >>}
    /\ KeyEnter(line, MaxInputs)

ClientState ==
    <<input, is_loading, ai_response_rx, auth_response_rx, tasks, user_email, user_tier,
      config_user, messages, conversation_history, show_exit_animation>>

\* C1: at most one chat and at most one auth operation is outstanding; a
\* submission while one of its category is outstanding starts nothing; once
\* the poll has consumed the result a dispatch of the category succeeds.
C1_AtMostOne ==
    /\ NumTasks(ChatKinds) <= 1
    /\ NumTasks(AuthKinds) <= 1
    /\ \A i \in 1..Len(tasks) : tasks[i].live
    /\ NumTasks(ChatKinds) = 1 => ai_response_rx # {}
    /\ NumTasks(AuthKinds) = 1 => auth_response_rx # {}

C1_Step ==
    \A line \in Lines :
        Enters(line) =>
            /\ (IsChatLine(line) /\ ChatOutstanding) =>
                   (tasks' = tasks /\ ai_response_rx' = ai_response_rx)
            /\ (IsAuthLine(line) /\ AuthOutstanding) =>
                   (tasks' = tasks /\ auth_response_rx' = auth_response_rx)
            /\ (IsChatLine(line) /\ ~ChatOutstanding /\ ~AuthOutstanding /\ user_email # {}) =>
                   (NumTasks(ChatKinds)' = 1 /\ ai_response_rx' = NewChannel)
            /\ (IsAuthLine(line) /\ ~ChatOutstanding /\ ~AuthOutstanding /\ auth_service) =>
                   (NumTasks(AuthKinds)' = 1 /\ auth_response_rx' = NewChannel)

C1_OneOperationPerCategory == [](C1_AtMostOne) /\ [][C1_Step]_vars

\* a second chat line was rejected while the first is outstanding, after an
\* earlier chat result had been consumed
C1_Witness ==
    /\ submitted = "rejected" /\ input = ChatText
    /\ NumTasks(ChatKinds) = 1
    /\ Len(conversation_history) >= 3

\* C2: a poll changes nothing while the operation is pending and delivers
\* its result exactly once: the poll that finds it clears the mailbox and
\* the busy flag, and a poll of an empty mailbox observes nothing.
Pending(rx) == \E r \in rx : r.buf = << >> /\ ~r.closed
Ready(rx) == \E r \in rx : r.buf # << >>

C2_Step ==
    /\ LoopCheckAi =>
          /\ (ai_response_rx = {} \/ Pending(ai_response_rx)) => UNCHANGED ClientState
          /\ Ready(ai_response_rx) =>
                /\ ai_response_rx' = {} /\ ~is_loading'
                /\ messages'.len = messages.len + 1
                /\ \A r \in ai_response_rx :
                      IF r.buf[1].ok
                      THEN /\ messages'.last = [role |-> "assistant", content |-> r.buf[1].text]
                           /\ conversation_history' =
                                  Append(conversation_history, messages'.last)
                      ELSE /\ messages'.last.role = "error"
                           /\ UNCHANGED conversation_history
    /\ LoopCheckAuth =>
          /\ (auth_response_rx = {} \/ Pending(auth_response_rx)) => UNCHANGED ClientState
          /\ Ready(auth_response_rx) =>
                /\ auth_response_rx' = {} /\ ~is_loading'
                /\ messages'.len = messages.len + 1

\* a mailbox holds at most the one result of the one operation that fed it
C2_Mailbox ==
    /\ \A r \in ai_response_rx \cup auth_response_rx : Len(r.buf) <= 1
    /\ Ready(ai_response_rx) => NumTasks(ChatKinds) = 0
    /\ Ready(auth_response_rx) => NumTasks(AuthKinds) = 0

C2_PollDeliversOnce == [](C2_Mailbox) /\ [][C2_Step]_vars

C2_Witness ==
    /\ pc = "check_auth" /\ ai_response_rx = {} /\ ~is_loading
    /\ messages.last = [role |-> "assistant", content |-> "answer"]

\* C3: a dispatch is rejected only when its own category has an operation
\* outstanding, so an auth operation can be started while a chat operation
\* is outstanding and vice versa.
C3_Independent ==
    [][\A line \in Lines :
          KeyEnter(line, MaxInputs) =>
              /\ (IsAuthLine(line) /\ auth_service /\ ~AuthOutstanding) =>
                     auth_response_rx' # {}
              /\ (IsChatLine(line) /\ user_email # {} /\ ~ChatOutstanding) =>
                     ai_response_rx' # {}
      ]_vars

\* C3 as amended: the two mailboxes share one busy flag; a submission is
\* rejected whenever an operation of either category is outstanding, so a
\* chat and an auth operation are never outstanding together, and with
\* nothing outstanding a dispatch of either category is accepted.
C3_SharedGate ==
    /\ [](~(ChatOutstanding /\ AuthOutstanding))
    /\ [](is_loading <=> (ChatOutstanding \/ AuthOutstanding))
    /\ [][pc = "events" =>
             LET outstanding == ChatOutstanding \/ AuthOutstanding
             IN  \A line \in Lines :
                     Enters(line) =>
                         /\ outstanding =>
                                (submitted' = "rejected" /\ input' = line /\
                                 UNCHANGED <<is_loading, ai_response_rx, auth_response_rx,
                                             tasks, messages, conversation_history>>)
                         /\ (~outstanding /\ auth_service /\ IsAuthLine(line)) =>
                                auth_response_rx' # {}
                         /\ (~outstanding /\ user_email # {} /\ IsChatLine(line)) =>
                                ai_response_rx' # {}
         ]_vars

\* a login line was rejected while a chat operation is outstanding
C3_Witness ==
    /\ submitted = "rejected" /\ IsAuthLine(input) /\ auth_service
    /\ ChatOutstanding /\ auth_response_rx = {}

\* C4: conversation_history has at most 21 entries and entry 0 is the system
\* prompt.
C4_HistoryBounded ==
    /\ Len(conversation_history) <= HistoryLimit
    /\ conversation_history[1] = SystemPrompt

(***************************************************************************)
(* The error kinds of the specification, as the messages the code raises.  *)
(***************************************************************************)
InvalidOrExpiredSession == {"Invalid or expired token", "Invalid or expired session"}
InvalidCredentials == "Invalid email or password"
ConflictError == "Email already registered"

(***************************************************************************)
(* Claims about the service.                                               *)
(***************************************************************************)

\* C5: once logout(T) has completed, every later verify_session(T) fails
\* with the invalid-or-expired-session error.
C5_VerifyFailsAfterLogout ==
    (call.op = "verify_session" /\ call.token \subseteq revoked)
        => (~call.ok /\ call.err \in InvalidOrExpiredSession)

\* C6: a successful register returns a user with the requested e-mail and
\* tier "free", and verify_session of the returned token returns that user
\* at any time before the token's expiry while no logout of the token ran.
C6_RegisterThenVerify ==
    /\ (call.op = "register" /\ call.ok) =>
           /\ call.rtoken # {} /\ call.ruser # {}
           /\ \A u \in call.ruser : u.email = call.email /\ u.tier = "free"
    /\ \A r \in registered :
           (/\ call.op = "verify_session"
            /\ call.token = {r.token}
            /\ r.token \notin revoked
            /\ call.at < r.token.exp)
           => (/\ call.ok
               /\ \A u \in call.ruser : u.id = r.user.id /\ u.email = r.user.email
               /\ call.ruser # {})

C6_Witness ==
    \E r \in registered :
        /\ call.op = "verify_session" /\ call.token = {r.token}
        /\ call.at > r.token.iat /\ call.at < r.token.exp
        /\ call.ok

\* C7: register for an e-mail that already has a user row fails with
\* "Email already registered", adds or changes no row, and login with the
\* first registration's password still succeeds.
C7_DuplicateRegister ==
    [][(call'.op = "register"
            /\ (\E u \in users : u.email = call'.email)
            /\ CallRegister(call'.email, call'.password))
          => /\ ~call'.ok /\ call'.err = ConflictError
             /\ users' = users /\ sessions' = sessions
             /\ \A r \in registered :
                   (r.user.email = call'.email
                        /\ \A u \in users : u.id = r.user.id => u.is_active)
                   => login([email |-> call'.email, password |-> r.password],
                            users', sessions', now', next_uuid', env_ttl').ok
      ]_vars

C7_Witness ==
    /\ call.op = "register" /\ call.err = ConflictError
    /\ call.password = "pw2"
    /\ \E r \in registered : r.user.email = call.email /\ r.password = "pw1"

\* C8: login without valid credentials always fails with the one
\* "Invalid email or password" error, whatever the account's other fields.
C8_LoginEnumerationResistant ==
    (call.op = "login" /\ ~call.creds_ok)
        => (~call.ok /\ call.err = InvalidCredentials)

\* C9: every session row holds hash_token(T) of a token T returned to a
\* caller, for that user and expiry, and never the raw token.
C9_OnlyHashStored ==
    /\ \A s \in sessions :
           /\ \E t \in issued : /\ s.token_hash = hash_token(t)
                                 /\ s.user_id = t.sub /\ s.expires_at = t.exp
           /\ \A t \in issued : s.token_hash # t
    /\ (call.op \in {"register", "login"} /\ call.ok) =>
           \A t \in call.rtoken : \E s \in sessions : s.token_hash = hash_token(t)

C9_Witness ==
    /\ call.op = "login" /\ call.ok
    /\ Cardinality(sessions) >= 2

\* C10: verify_session(T) never succeeds when T has no session row or the
\* time is at or past expires_at of T's row, and then fails with the
\* invalid-or-expired-session error.
C10_ExpiredSessionInvisible ==
    (/\ call.op = "verify_session"
     /\ \/ call.rows = {}
        \/ \E s \in call.rows : call.at >= s.expires_at)
    => (~call.ok /\ call.err \in InvalidOrExpiredSession)

C10_Witness ==
    /\ call.op = "verify_session"
    /\ \E s \in call.rows : call.at = s.expires_at
    /\ ~call.ok

\* C11: verify_token(T) succeeds only if T is signed with the service's
\* secret and T's exp is strictly greater than the current time.
C11_VerifyTokenStrict ==
    \A t \in Presentable :
        verify_token(t, now) # {} => (t.key = jwt_secret /\ t.exp > now)

\* C11 as amended: verify_token(T) succeeds only if T is signed with the
\* service's secret and T's exp is not earlier than the current time; a token
\* whose exp equals the current time still verifies.
C11_VerifyTokenLeeway ==
    \A t \in Presentable :
        /\ verify_token(t, now) # {} => (t.key = jwt_secret /\ t.exp >= now)
        /\ (t.key = jwt_secret /\ t.exp = now) => verify_token(t, now) # {}

\* verify_session of a genuine token at its exp passed verify_token and failed
\* on the session lookup, after a forged token had been issued a refusal
C11_Witness ==
    /\ call.op = "verify_session" /\ ~call.ok
    /\ call.err = "Invalid or expired session"
    /\ \E t \in call.token : t.key = jwt_secret /\ t.exp = call.at
    /\ \E t \in Presentable : t.key # jwt_secret /\ t.exp > now

\* C12: verify_token of a token generate_token made for a user, at any time
\* before the token's exp, returns claims with the user's id, e-mail and tier.
C12_GenerateThenVerify ==
    /\ (call.op \in {"register", "login"} /\ call.ok) =>
           \A t \in call.rtoken, u \in call.ruser :
               \A time \in call.at..(t.exp - 1) :
                   /\ verify_token(t, time) # {}
                   /\ \A c \in verify_token(t, time) :
                          c.sub = u.id /\ c.email = u.email /\ c.tier = u.tier
    /\ \A t \in issued :
           now < t.exp =>
               /\ verify_token(t, now) # {}
               /\ \A c \in verify_token(t, now) :
                      \E u \in users : c.sub = u.id /\ c.email = u.email /\ c.tier = u.tier

\* a token issued by a login after time 0 was verified later, before its exp
C12_Witness ==
    /\ call.op = "verify_session" /\ call.ok
    /\ \E t \in call.token : t.iat > 0 /\ call.at > t.iat /\ call.at < t.exp

\* verify_session(token) would succeed on the store <<U, S>> at time t
VerifyAccepts(token, U, S, t) ==
    LET matching == active_sessions(hash_token(token), S, t)
    IN  /\ matching # {}
        /\ verify_session(token, CHOOSE s \in matching : TRUE, U, S, t).ok

\* C13: a user may hold several sessions: a successful login or register
\* removes no session row and leaves every token verifying that verified
\* before, and logout(T) leaves verify_session succeeding for every other
\* token that verified before.
C13_ConcurrentSessions ==
    [][/\ (call'.op = "login" /\ call'.ok /\ CallLogin(call'.email, call'.password)) =>
             /\ sessions \subseteq sessions'
             /\ \A t \in issued :
                    VerifyAccepts(t, users, sessions, now)
                        => VerifyAccepts(t, users', sessions', now')
       /\ (call'.op = "register" /\ call'.ok
               /\ CallRegister(call'.email, call'.password)) =>
             sessions \subseteq sessions'
       /\ \A token \in call'.token :
             (call'.op = "logout" /\ CallLogout(token)) =>
                 \A t \in issued \ {token} :
                     VerifyAccepts(t, users, sessions, now)
                         => VerifyAccepts(t, users', sessions', now')
      ]_vars

\* a logout has run while another token of the same user still verifies
C13_Witness ==
    /\ call.op = "logout" /\ call.rows # {}
    /\ \E tok \in call.token : \E t \in issued \ {tok} :
           t.sub = tok.sub /\ VerifyAccepts(t, users, sessions, now)

\* C14: logout always returns success; logout(T) of a token without a session
\* row changes nothing, and a second logout(T) leaves the store as the first
\* left it.
C14_LogoutIdempotent ==
    [][\A token \in call'.token :
          (call'.op = "logout" /\ CallLogout(token)) =>
              /\ call'.ok
              /\ users' = users
              /\ call'.rows = {} => sessions' = sessions
              /\ logout(token, users', sessions').ok
              /\ logout(token, users', sessions').sessions = sessions'
      ]_vars

\* a logout of a token that had no session row returned success, with the
\* sessions of other tokens in place
C14_Witness ==
    /\ call.op = "logout" /\ call.rows = {} /\ call.ok
    /\ sessions # {}

\* a user row without a session can be logged into and not registered again
C15_Recoverable ==
    \A u \in users :
        (u.is_active /\ \A s \in sessions : s.user_id # u.id) =>
            \A password \in Passwords, salt \in Salts :
                LET again == register([email |-> u.email, username |-> {"name"},
                                       password |-> password],
                                      salt, users, sessions, now, next_uuid, env_ttl)
                    back == login([email |-> u.email, password |-> password],
                                  users, sessions, now, next_uuid, env_ttl)
                IN  /\ ~again.ok /\ again.err = ConflictError
                    /\ again.users = users /\ again.sessions = sessions
                    /\ CredsOk(u.email, password, users) =>
                           /\ back.ok
                           /\ \E s \in back.sessions \ sessions : s.user_id = u.id

\* C15: a register whose session insert fails reports an error and leaves the
\* user row without a session; for every active user without a session,
\* login with the e-mail and password succeeds and creates a session, and
\* register with the e-mail fails with the conflict error.
C15_InterruptedRegister ==
    /\ [][(call'.op = "register"
               /\ CallRegisterInterrupted(call'.email, call'.password)) =>
             /\ ~call'.ok
             /\ \E u \in users' \ users :
                    u.email = call'.email /\ CredsOk(call'.email, call'.password, {u})
             /\ sessions' = sessions
         ]_vars
    /\ [](C15_Recoverable)

\* a login succeeded for a user whose only register was interrupted
C15_Witness ==
    /\ call.op = "login" /\ call.ok
    /\ registered = {}
    /\ \E u \in call.ruser : \E s \in sessions : s.user_id = u.id

\* C16: a login that fails and a register that fails with the validation or
\* the conflict error leave users and user_sessions as they were; an e-mail
\* without '@' is refused with the validation error whether or not a row with
\* that e-mail exists.
C16_FailedAuthChangesNothing ==
    /\ [][/\ (call'.op = "login" /\ ~call'.ok
                  /\ CallLogin(call'.email, call'.password)) =>
                (users' = users /\ sessions' = sessions)
          /\ (call'.op = "register"
                  /\ call'.err \in {"Invalid email format", ConflictError}
                  /\ CallRegister(call'.email, call'.password)) =>
                (users' = users /\ sessions' = sessions)
         ]_vars
    /\ [](\A email \in RegisterEmails, password \in Passwords, salt \in Salts :
              ~ContainsAt(email) =>
                  LET req == [email |-> email, username |-> {"name"}, password |-> password]
                      taken == users \cup {UserRow(0, req, hash_password(password, salt), now)}
                  IN  /\ register(req, salt, users, sessions, now, next_uuid, env_ttl)
                          = Fail("Invalid email format", users, sessions)
                      /\ register(req, salt, taken, sessions, now, next_uuid, env_ttl)
                          = Fail("Invalid email format", taken, sessions))

\* a login with the right password was refused for a deactivated account
\* that has a session and an earlier login
C16_Witness ==
    /\ call.op = "login" /\ ~call.ok /\ call.creds_ok
    /\ call.err = "Account is deactivated"
    /\ sessions # {}

(***************************************************************************)
(* Claims about the client's authentication state.                         *)
(***************************************************************************)
\* the step of the tick loop that finds a result in the auth mailbox
ConsumesAuth == pc = "check_auth" /\ Ready(auth_response_rx) /\ LoopCheckAuth

\* C17: when the foreground consumes a successful login/register result
\* (token, email, tier), user_email is the returned e-mail, user_tier the
\* returned tier and the stored client token the returned token.
C17_Authenticated ==
    [][ConsumesAuth =>
          \A rx \in auth_response_rx :
              rx.buf[1].ok =>
                  /\ user_email' = {rx.buf[1].email}
                  /\ user_tier' = rx.buf[1].tier
                  /\ \E u \in config_user' : u.token = rx.buf[1].token
      ]_vars

\* C17 as amended: the consumed successful result becomes the stored client
\* user (email, token, tier); when the configuration is saved, user_email and
\* user_tier become the returned e-mail and tier, and when saving fails an
\* error is shown and user_email and user_tier keep their values.
C17_AuthenticatedWhenSaved ==
    [][ConsumesAuth =>
          \A rx \in auth_response_rx :
              rx.buf[1].ok =>
                  /\ config_user' = {[email |-> rx.buf[1].email, token |-> rx.buf[1].token,
                                      tier |-> rx.buf[1].tier]}
                  /\ rx.buf[1].token # {}
                  /\ \/ /\ messages'.last = [role |-> "system", content |-> "Logged in successfully"]
                        /\ user_email' = {rx.buf[1].email}
                        /\ user_tier' = rx.buf[1].tier
                     \/ /\ messages'.last = [role |-> "error", content |-> "Failed to save config"]
                        /\ UNCHANGED <<user_email, user_tier>>
                  /\ ~is_loading' /\ auth_response_rx' = {}
      ]_vars

\* a successful result has been consumed and saved: the client is
\* authenticated with a token the service issued
C17_Witness ==
    /\ pc = "events" /\ ~is_loading
    /\ messages.last = [role |-> "system", content |-> "Logged in successfully"]
    /\ user_email = {"a@x"}
    /\ \E u \in config_user : u.token # {} /\ u.token \subseteq issued

\* C18: when the foreground consumes a failed login/register result, the
\* client is Anonymous afterwards (user_email is None).
C18_AnonymousAfterFailure ==
    [][ConsumesAuth =>
          \A rx \in auth_response_rx : ~rx.buf[1].ok => user_email' = {}
      ]_vars

\* C18 as amended: neither the dispatch of a login/register nor the
\* consumption of its failed result changes the authentication state:
\* user_email, user_tier and the stored user keep their values, so the client
\* is Anonymous afterwards exactly if it was Anonymous at the dispatch.
C18_FailureKeepsState ==
    [][/\ ConsumesAuth =>
             \A rx \in auth_response_rx :
                 ~rx.buf[1].ok =>
                     /\ UNCHANGED <<user_email, user_tier, config_user>>
                     /\ messages'.last.role = "error"
                     /\ ~is_loading' /\ auth_response_rx' = {}
       /\ (pc = "events" /\ submitted' \in {"auth", "unavailable"}) =>
             UNCHANGED <<user_email, user_tier, config_user>>
      ]_vars

\* a failed login has been consumed by a client that was, and still is,
\* authenticated
C18_Witness ==
    /\ pc = "events" /\ ~is_loading
    /\ messages.last = [role |-> "error",
                        content |-> "Invalid email or password. Please try again."]
    /\ user_email # {}

\* C19: an accepted /logout leaves the client Anonymous: user_email is None,
\* user_tier is "free" and the stored user with its token is removed, with or
\* without a stored token, an auth service, or a successful save.
C19_LogoutAnonymous ==
    [][(pc = "events" /\ ~gate(<<"/logout">>) /\ KeyEnter(<<"/logout">>, MaxInputs)) =>
              /\ submitted' = "logout"
              /\ user_email' = {}
              /\ user_tier' = "free"
              /\ config_user' = {}
      ]_vars

\* a /logout of a client that held a token was accepted, and its save of the
\* configuration failed
C19_Witness ==
    /\ submitted = "logout"
    /\ messages.last = [role |-> "error", content |-> "Failed to save config"]
    /\ user_email = {} /\ config_user = {}
    /\ NumTasks({"logout"}) = 1

(***************************************************************************)
(* Claims about the tick loop.                                             *)
(***************************************************************************)
\* an operation was dispatched into the mailbox and its task has ended
Ended(rx, kinds) == rx # {} /\ NumTasks(kinds) = 0

C20_Step ==
    /\ (LoopCheckAi /\ Ended(ai_response_rx, ChatKinds)) =>
           /\ messages'.len = messages.len + 1
           /\ messages'.last.role \in {"assistant", "error"}
           /\ ai_response_rx' = {} /\ ~is_loading'
    /\ (LoopCheckAuth /\ Ended(auth_response_rx, AuthKinds)) =>
           /\ messages'.len = messages.len + 1
           /\ messages'.last.role \in {"system", "error"}
           /\ auth_response_rx' = {} /\ ~is_loading'
    /\ (LoopCheckAi \/ LoopCheckAuth) => pc' \in {"check_auth", "events"}
    /\ (pc # "done" /\ pc' = "done") => Quit

\* C20: every dispatched operation whose task has ended (with a result, with
\* an error, or without sending anything) is eventually observed by the tick
\* loop unless the user quits; the observing poll appends exactly one
\* message and clears the mailbox and the busy flag, and no poll ends the
\* loop.
C20_EventuallyObserved ==
    /\ (Ended(ai_response_rx, ChatKinds) ~> (ai_response_rx = {} \/ pc = "done"))
    /\ (Ended(auth_response_rx, AuthKinds) ~> (auth_response_rx = {} \/ pc = "done"))
    /\ [][C20_Step]_vars

\* the loop has observed a chat task that ended without sending, and runs on
C20_Witness ==
    /\ pc = "check_auth" /\ ~is_loading /\ ai_response_rx = {}
    /\ messages.last = [role |-> "error",
                        content |-> "AI request failed unexpectedly. Please try again."]

\* C21: a successful verify_session returns the user row as it is in the
\* store when the call runs, whatever identity the token's claims carry.
C21_ReturnsCurrentRow ==
    [][\A token \in call'.token :
          (call'.op = "verify_session" /\ call'.ok /\ CallVerifySession(token)) =>
              /\ call'.ruser = {u \in users : u.id = token.sub}
              /\ call'.ruser # {}
      ]_vars

\* a token issued for tier "free" was verified after the tier had been
\* changed, and the call returned the changed tier
C21_Witness ==
    /\ call.op = "verify_session" /\ call.ok
    /\ \E u \in call.ruser, t \in call.token : t.tier = "free" /\ u.tier = "pro"

\* C22: a successful verify_session(T) changes only last_active_at of one
\* session matching T, to the current time; a verify_session that fails on
\* the token or on the session lookup changes nothing in the store.
C22_VerifyTouchesOnly ==
    [][\A token \in call'.token :
          (call'.op = "verify_session" /\ CallVerifySession(token)) =>
              /\ users' = users
              /\ call'.ok =>
                     \E s \in active_sessions(hash_token(token), sessions, now) :
                         sessions' = (sessions \ {s}) \cup {[s EXCEPT !.last_active_at = now]}
              /\ (~call'.ok /\ call'.err \in InvalidOrExpiredSession) => sessions' = sessions
      ]_vars

\* a session was touched by a verify_session after its creation while another
\* session exists
C22_Witness ==
    /\ call.op = "verify_session" /\ call.ok
    /\ \E s \in sessions : s.last_active_at = call.at /\ s.created_at < call.at
    /\ \E s \in sessions : s.last_active_at = s.created_at

\* what verify_session(token) returns on the store <<U, S>> at time t
VerifyOutcome(token, U, S, t) ==
    LET matching == active_sessions(hash_token(token), S, t)
        out == verify_session(token,
                              IF matching = {} THEN NoCall ELSE CHOOSE s \in matching : TRUE,
                              U, S, t)
    IN  [ok |-> out.ok, err |-> out.err, user |-> out.user]

\* C23: cleanup_expired_sessions deletes exactly the rows with expires_at <
\* now and returns their number, and no verify_session returns anything else
\* after the cleanup than before it.
C23_CleanupExact ==
    [][(call'.op = "cleanup_expired_sessions" /\ CallCleanup) =>
          /\ sessions' = {s \in sessions : ~(s.expires_at < now)}
          /\ users' = users
          /\ call'.ok
          /\ call'.count = Cardinality(sessions \ sessions')
          /\ \A t \in Presentable :
                 VerifyOutcome(t, users', sessions', now') = VerifyOutcome(t, users, sessions, now)
      ]_vars

\* a cleanup deleted a row and left the row in place that expires at this
\* very moment
C23_Witness ==
    /\ call.op = "cleanup_expired_sessions" /\ call.count >= 1
    /\ \E s \in sessions : s.expires_at = call.at

C26_Ttl ==
    CASE env_ttl = "1" -> 1
      [] env_ttl = "unset" -> 24
      [] env_ttl = "abc" -> 24

\* C26: every issued token has iat = the issue time and exp = iat + ttl
\* hours, where ttl is the parsed TOKEN_EXPIRY_HOURS, or 24 when the variable
\* is unset or does not parse; the session row created with the token has
\* expires_at = exp.
C26_TokenLifetime ==
    /\ \A t \in issued : t.exp = t.iat + C26_Ttl
    /\ (call.op \in {"register", "login"} /\ call.ok) =>
           \A t \in call.rtoken :
               /\ t.iat = call.at
               /\ t.exp = call.at + C26_Ttl
               /\ \E s \in sessions : s.token_hash = hash_token(t) /\ s.created_at = call.at
               /\ \A s \in sessions :
                      (s.token_hash = hash_token(t) /\ s.created_at = call.at) =>
                          s.expires_at = t.exp
    /\ \A s \in sessions :
           \E t \in issued : s.token_hash = hash_token(t) /\ s.expires_at = t.exp

\* a login after the clock advanced, with a TOKEN_EXPIRY_HOURS that does not
\* parse
C26_Witness ==
    /\ env_ttl = "abc"
    /\ call.op = "login" /\ call.ok /\ call.at > 0
    /\ \E t \in call.rtoken : t.exp = call.at + 24

\* the histories of the chat requests in flight
C28_RequestShape ==
    \A i \in 1..Len(tasks) :
        tasks[i].kind = "chat" =>
            LET h == tasks[i].history
            IN  /\ Len(h) >= 2 /\ Len(h) <= 21
                /\ h[1] = SystemPrompt
                /\ h[Len(h)] = [role |-> "user", content |-> ChatText[1]]

\* the history a dispatch hands to its task
C28_Dispatch ==
    (pc = "events" /\ KeyEnter(ChatText, MaxTurns) /\ submitted' = "chat") =>
        LET full == conversation_history \o <<[role |-> "user", content |-> ChatText[1]]>>
            n == Len(full)
            sent == tasks'[Len(tasks')].history
        IN  /\ tasks'[Len(tasks')].kind = "chat"
            /\ conversation_history' = sent
            /\ IF n > 21
               THEN /\ Len(sent) = 21
                    /\ sent[1] = full[1]
                    /\ \A k \in 1..20 : sent[1 + k] = full[n - 20 + k]
               ELSE sent = full

\* C28: every chat request carries at most 21 entries, entry 0 is the system
\* prompt and the last entry is the user text just submitted; when the
\* history with the new text is longer than 21, the entries after the system
\* prompt are its 20 most recent ones in their order.
C28_TrimmedRequest == [](C28_RequestShape) /\ [][C28_Dispatch]_vars

\* a request in flight that was trimmed from 22 entries: it starts with the
\* system prompt followed by an assistant reply
C28_Witness ==
    \E i \in 1..Len(tasks) :
        /\ tasks[i].kind = "chat"
        /\ Len(tasks[i].history) = 21
        /\ tasks[i].history[2].role = "assistant"

\* C29: a rejected submission is a no-op: when submit_input runs while an
\* operation is outstanding (a mailbox is occupied, hence the busy flag is
\* set), or on an empty line, no field of the client changes and the typed
\* line stays in the input, for every kind of line.
C29_RejectedIsNoOp ==
    /\ []((ai_response_rx # {} \/ auth_response_rx # {}) => is_loading)
    /\ [][pc = "events" =>
             \A line \in Lines :
                 ((line = << >> \/ is_loading) /\ Enters(line)) =>
                     /\ input' = line
                     /\ submitted' = "rejected"
                     /\ UNCHANGED <<is_loading, ai_response_rx, auth_response_rx, tasks,
                                    user_email, user_tier, config_user, messages,
                                    conversation_history, show_exit_animation,
                                    auth_service, ninputs>>
                     /\ UNCHANGED svars
      ]_vars

\* /quit typed by a signed-in client while an operation is outstanding
C29_Witness ==
    /\ submitted = "rejected" /\ input = <<"/quit">>
    /\ is_loading /\ ~show_exit_animation
    /\ user_email # {}

\* C27: the users table never holds two rows with the same e-mail, also
\* when register calls for the same e-mail interleave their check and their
\* insert; of such calls at most one succeeds and every other one fails with
\* the conflict error.
C27_RaceEndsInConflict ==
    /\ \A u \in users, v \in users : u.email = v.email => u = v
    /\ Cardinality({r.user.id : r \in registered}) <= 1
    /\ (call.op = "register" /\ ~call.ok /\ ContainsAt(call.email)) =>
           call.err = ConflictError

\* a logout task has been spawned and its call has not returned
C30_LogoutPending == \E i \in 1..Len(tasks) : tasks[i].kind = "logout"

C30_RowsDeleted ==
    /\ call.op = "logout"
    /\ \A s \in sessions, t \in call.token : s.token_hash # hash_token(t)

C30_FailureShown ==
    /\ call.op = "logout" /\ ~call.ok
    /\ messages.last.role = "error"

\* C30: after an accepted /logout of a client that holds a token and has an
\* auth service, eventually the session rows of that token are deleted from
\* the store, or the failure of the deletion is shown to the user as an
\* error.
C30_LogoutDeletesOrReports ==
    C30_LogoutPending ~> (C30_RowsDeleted \/ C30_FailureShown)

\* C39: verify_session does not consult users.is_active: it accepts a token
\* exactly if the token is genuine and unexpired and a session row of its
\* hash has not expired, so a session created before the deactivation keeps
\* verifying (and returns the row with is_active = FALSE) until it expires or
\* is logged out, while login for the deactivated account is refused.
C39_DeactivatedStillVerifies ==
    [][/\ \A token \in call'.token :
              (call'.op = "verify_session" /\ CallVerifySession(token)) =>
                  /\ call'.ok <=> /\ token.key = jwt_secret
                                  /\ token.exp >= now
                                  /\ \E s \in sessions : /\ s.token_hash = hash_token(token)
                                                         /\ s.expires_at > now
                  /\ call'.ok => call'.ruser = {u \in users : u.id = token.sub}
       /\ (users' # users /\ sessions' = sessions /\ call' = call /\ now' = now) =>
              \A token \in Presentable :
                  VerifyOutcome(token, users', sessions', now').ok
                      = VerifyOutcome(token, users, sessions, now).ok
       /\ (call'.op = "login" /\ CallLogin(call'.email, call'.password)
              /\ \E u \in users : u.email = call'.email /\ ~u.is_active) =>
              (~call'.ok /\ call'.err = "Account is deactivated")
      ]_vars

\* verify_session returned the row of a deactivated account
C39_Witness ==
    /\ call.op = "verify_session" /\ call.ok
    /\ \E u \in call.ruser : ~u.is_active

\* the chat calls that have not returned
C31_Running == \E i \in 1..Len(tasks) : tasks[i].kind = "chat"

\* a running call has made at most two attempts so far, and has slept
\* 2^attempt seconds after its last one
C31_AttemptsBounded ==
    \A i \in 1..Len(tasks) :
        tasks[i].kind = "chat" =>
            /\ tasks[i].attempt \in 0..2
            /\ tasks[i].backoff = IF tasks[i].attempt = 0 THEN 0
                                  ELSE IF tasks[i].attempt = 1 THEN 2 ELSE 4

\* an attempt is followed by another one exactly after a 429 or a timeout
\* on the first or second attempt; otherwise the call returns at once
C31_Step ==
    \A i \in 1..Len(tasks), response \in Responses :
        ChatAttempt(i, response) =>
            IF response \in {"429", "timeout"} /\ tasks[i].attempt < 2
            THEN /\ Len(tasks') = Len(tasks)
                 /\ tasks'[i].attempt = tasks[i].attempt + 1
            ELSE /\ Len(tasks') = Len(tasks) - 1
                 /\ tasks[i].live =>
                        \E r \in ai_response_rx' :
                            /\ r.buf # << >>
                            /\ r.buf[1].ok <=> (response = "200")

\* C31: one call of DeepSeekClient::chat terminates after at most 3 HTTP
\* attempts: it retries only after a 429 or a timeout and only while fewer
\* than 3 attempts have been made, sleeping 2^attempt seconds; a success, any
\* other status or transport error, or the third failed attempt makes it
\* return at once.
C31_ChatTerminates ==
    /\ [](C31_AttemptsBounded)
    /\ [][C31_Step]_vars
    /\ C31_Running ~> ~C31_Running

\* a call that is about to make its third attempt
C31_Witness ==
    \E i \in 1..Len(tasks) :
        tasks[i].kind = "chat" /\ tasks[i].attempt = 2 /\ tasks[i].backoff = 4

\* C32: once an accepted /quit has been handled (the exit animation is
\* shown), the tick loop of run_tui eventually ends.
C32_QuitTerminates == show_exit_animation ~> (pc = "done")

C34_BusyIffOneMailbox ==
    /\ ~(ai_response_rx # {} /\ auth_response_rx # {})
    /\ is_loading <=> (ai_response_rx # {} \/ auth_response_rx # {})
    /\ Cardinality(ai_response_rx) <= 1 /\ Cardinality(auth_response_rx) <= 1

\* the auth mailbox is occupied after a chat result had been consumed and
\* its mailbox released
C34_Witness ==
    /\ is_loading /\ auth_response_rx # {} /\ ai_response_rx = {}
    /\ Len(conversation_history) >= 3

\* C35: whenever a chat operation is outstanding user_email is present, and
\* no step taken between the dispatch of a chat request and the consumption
\* of its result changes user_email.
C35_ChatImpliesAuthenticated ==
    /\ [](ChatOutstanding => (user_email # {} /\ ai_response_rx # {}))
    /\ [][ai_response_rx # {} => (user_email' = user_email /\ config_user' = config_user)]_vars

\* a /logout was rejected while the chat request of a client that had
\* signed in through a login or register result was outstanding
C35_Witness ==
    /\ ai_response_rx # {} /\ user_email # {}
    /\ submitted = "rejected" /\ input = <<"/logout">>
    /\ \E u \in config_user : u.token \subseteq issued /\ u.token # {}

\* the stored token was presented to verify_session by App::new
C36_VerifiedAtStartup ==
    /\ call'.op = "verify_session" /\ call'.ok /\ call'.at = now
    /\ \E u \in config_user : call'.token = u.token
    /\ user_email' = {v.email : v \in call'.ruser}

\* C36: user_email is present only as the outcome of a verification against
\* the store: App::new sets it only if verify_session accepted the stored
\* token, afterwards it is set only by the poll that consumes a successful
\* login/register result, and when the stored token fails verify_session
\* the client starts with user_email absent and tier "free".
C36_AuthenticatedOnlyIfVerified ==
    [][/\ (pc = "new" /\ pc' # "new" /\ user_email' # {}) => C36_VerifiedAtStartup
       /\ (pc = "new" /\ pc' # "new" /\ call'.op = "verify_session" /\ ~call'.ok) =>
              (user_email' = {} /\ user_tier' = "free")
       /\ (pc = "new" /\ pc' = "new") => user_email' = {}
       /\ (pc # "new" /\ user_email' # user_email /\ user_email' # {}) =>
              /\ ConsumesAuth
              /\ \A rx \in auth_response_rx : rx.buf[1].ok /\ user_email' = {rx.buf[1].email}
      ]_vars

\* C37: while the client holds the token of a consumed login/register
\* result (no /logout since, which would have removed it) and the token is
\* unexpired, verify_session of that token succeeds, whatever logout task of
\* an earlier /logout is still running.
C37_HeldTokenVerifies ==
    \A u \in config_user : \A token \in u.token :
        (user_email # {} /\ token.exp > now) =>
            VerifyAccepts(token, users, sessions, now)

\* C38: logout and login leave conversation_history unchanged: the history
\* changes only when a chat request is dispatched and when a chat reply is
\* consumed, and every dispatch sends the whole history it finds, so the
\* turns of the account that used the client before go out with the
\* requests of the account that is logged in next.
C38_HistorySurvivesLogout ==
    [][/\ conversation_history' # conversation_history =>
              \/ /\ pc = "events" /\ submitted' = "chat"
                 /\ conversation_history' =
                        conversation_history \o <<[role |-> "user", content |-> ChatText[1]]>>
              \/ /\ pc = "check_ai"
                 /\ conversation_history' =
                        conversation_history \o <<[role |-> "assistant", content |-> "answer"]>>
       /\ (pc = "events" /\ submitted' \in {"logout", "auth"} /\ ninputs' = ninputs + 1) =>
              conversation_history' = conversation_history
       /\ (pc = "check_auth" /\ user_email' # user_email) =>
              conversation_history' = conversation_history
       /\ (pc = "events" /\ submitted' = "chat" /\ ninputs' = ninputs + 1) =>
              /\ tasks'[Len(tasks')].kind = "chat"
              /\ tasks'[Len(tasks')].history = conversation_history'
      ]_vars

\* a chat request of a@x in flight that carries a turn entered by b@x
C38_Witness ==
    /\ user_email = {"a@x"}
    /\ \E i \in 1..Len(tasks) :
           /\ tasks[i].kind = "chat"
           /\ Len(tasks[i].history) >= 3
           /\ tasks[i].history[2] = [role |-> "user", content |-> ChatText[1]]

====
